---- MODULE Spec2Model ----
(***************************************************************************)
(* A model of scripty's pipeline execution engine (src/src/cmd).           *)
(*                                                                         *)
(* One behaviour is one call of an execution strategy on one Pipeline:     *)
(* the spawner wires and starts the stages, the strategy feeds, drains and *)
(* waits, and the child processes run concurrently with it.  Stages are    *)
(* numbered 1..N here; the source numbers them 0..N-1.                     *)
(***************************************************************************)
EXTENDS Integers, Sequences, FiniteSets, TLC

\* ------------------------------------------------------------------ bounds
\* MaxStages bounds the pipelines the spawner is run on, MaxRunStages those
\* that are run to the end with their child processes.
MaxStages == 3
MaxRunStages == 2
MaxInput == 4
PipeCap == 1
\* MaxCalls bounds the builder calls of one chain, MaxArgLen the length of an
\* argument given to quote_argument.
MaxCalls == 3
MaxArgLen == 3
\* MaxEchoInput bounds the inputs of the executions that are run with and
\* without echo.
MaxEchoInput == 1

\* ------------------------------------------------------ values of the code
\* PipeMode (types.rs)
PipeMode == {"Stdout", "Stderr", "Both"}

\* The programs a stage may name.  "cat" copies its stdin to its stdout until
\* end of input; "emit" ignores its stdin and writes EmitOut to its stdout and
\* EmitErr to its stderr; "nope" names no executable, so spawning it fails.
Programs == {"cat", "emit", "nope"}
\* Each stream of "emit" is one byte longer than a pipe holds.
EmitOut == [k \in 1..(PipeCap + 1) |-> 64 + k]
EmitErr == [k \in 1..(PipeCap + 1) |-> 96 + k]

\* Exit codes the child of stage i may return: success, or a failure code
\* that tells the stages apart.  NoCode is status.code() == None (killed by a
\* signal, here SIGPIPE).
ExitCodes(i) == {0, i}
NoCode == -1

\* The bulk inputs: the prefixes of a byte sequence that starts with NUL and
\* a high byte and never repeats a byte.
InputData == [k \in 1..MaxInput |-> IF k = 1 THEN 0 ELSE 257 - k]

\* Option::None for the bulk input (a byte sequence otherwise).
None == <<-1>>

Inputs == {SubSeq(InputData, 1, k) : k \in 0..MaxInput}

\* The execution strategies of Pipeline (pipeline.rs).
BulkStrategies == {"run", "output", "write_to", "write_err_to", "write_both_to"}
ReaderStrategies == {"run_with_io", "run_with_err_io", "run_with_both_io"}
BothStrategies == {"write_both_to", "run_with_both_io"}
SpawnStrategies == {"spawn_io_all", "spawn_io_in", "spawn_io_in_out", "spawn_io_in_err",
                    "spawn_io_out", "spawn_io_err", "spawn_io_out_err"}
Strategies == BulkStrategies \cup ReaderStrategies \cup SpawnStrategies

\* ---------------------------------------------------------------- pipes
\* The OS pipes of one execution: the first stage's stdin pipe, one pipe per
\* edge (edge k joins stage k to stage k+1), and the last stage's stdout and
\* stderr pipes.
PipeIn == 0
PipeOut == MaxStages
PipeErr == MaxStages + 1
PipeIds == 0..(MaxStages + 1)

\* What a child's stdin/stdout/stderr is attached to.
ToPipe(p) == [kind |-> "pipe", id |-> p]
Inherit == [kind |-> "inherit", id |-> 0]
Unset == [kind |-> "unset", id |-> 0]

VARIABLES
    connections,  \* Pipeline.connections: the stages, a Cmd and a PipeMode each
    input,        \* Pipeline.input: None or the bulk input bytes
    reader,       \* the caller's reader of a run_with_* strategy
    strategy,     \* the strategy method called
    pc,           \* where the calling thread is
    procs,        \* the process table, one record per stage
    children,     \* Vec<Child> children: the stages spawned, in push order
    first_exit,   \* the stage whose child exited first (0: none yet)
    pipes,        \* the pipes: [made, buf]
    prev_reader,  \* the spawner's pending read end (an edge number, 0: None)
    cmd_writers,  \* the edge pipes whose write end a Command of the parent holds
    held,         \* the parent's stdin/stdout/stderr handles: who owns each
    feeder,       \* the input worker thread: [st, rest]
    drainers,     \* the stdout and stderr worker threads of the *_both_* strategies
    lock,         \* who holds the Mutex of the shared writer
    sink,         \* the bytes drained so far (output buffer or writer)
    waited,       \* how many children PipelineHandle::wait has waited on
    handle,       \* the PipelineHandle: "none", "live", "waiting", "dropped"
    result,       \* what the call returned
    cmd,          \* the Cmd a builder chain is on before it becomes a Pipeline
    calls,        \* the builder calls made so far, in order: [op, val]
    suppress_echo, \* Pipeline.suppress_echo of the pipeline the strategy is called on
    no_echo_env,  \* whether NO_ECHO is set in the parent's environment
    echoed,       \* how many times the echo transcript was printed
    arg,          \* the argument given to Cmd::quote_argument
    quoted        \* what Cmd::quote_argument returned

\* What the caller built and the environment it runs in: no step of an
\* execution changes them.
caller_vars == <<cmd, calls, suppress_echo, no_echo_env, arg, quoted>>

vars == <<connections, input, reader, strategy, pc, procs, children, first_exit, pipes,
          prev_reader, cmd_writers, held, feeder, drainers, lock, sink, waited, handle, result,
          caller_vars, echoed>>

N == Len(connections)
Stages == 1..N
Program(i) == connections[i].program
Mode(i) == connections[i].mode

\* ---------------------------------------------------------------- results
Pending ==
    [kind |-> "pending", message |-> "", program |-> "", stage |-> 0,
     source |-> FALSE, code |-> 0, bytes |-> <<>>]

\* Ok(bytes)
Ok(bytes) == [Pending EXCEPT !.kind = "Ok", !.bytes = bytes]

\* SpawnError naming the pipeline's first program instead of the failed one.
SpawnError_FirstProgram(k) ==
    [Pending EXCEPT !.kind = "Err", !.message = "Failed to spawn command",
                    !.program = Program(1), !.stage = 1, !.source = TRUE]

\* Error::io("Failed to spawn command: <program>", e)
SpawnError(k) ==
    [Pending EXCEPT !.kind = "Err", !.message = "Failed to spawn command",
                    !.program = Program(k), !.stage = k, !.source = TRUE]

\* Error::exit_code(status.code())
ExitCodeError(code) ==
    [Pending EXCEPT !.kind = "Err", !.message = "Command failed with exit code",
                    !.code = code]

\* ------------------------------------------------------- Cmd and Pipeline
\* The values the builder calls are given.
ArgValues == {"a", "b"}
ArgLists == {<<>>, <<"b", "a">>, <<"a", "a">>}
EnvKeys == {"HOME", "K"}
EnvValues == {"x", "y"}
BuilderPrograms == {"cat", "emit"}
BuilderInputs == {SubSeq(InputData, 1, k) : k \in 1..2}

\* The parent's environment: HOME is set, K is not.
NotSet == ""
ParentEnv == [k \in EnvKeys |-> IF k = "HOME" THEN "parent" ELSE NotSet]

\* Cmd::new(program)
CmdNew(program) ==
    [program |-> program, args |-> <<>>, envs |-> <<>>, suppress_echo |-> FALSE]

\* No Cmd: the chain has become a Pipeline.
NoCmd == CmdNew("")

\* CmdArg of a builder that drops an argument it already has.
CmdArg_Dedup(c, a) ==
    IF \E k \in 1..Len(c.args) : c.args[k] = a THEN c ELSE [c EXCEPT !.args = Append(@, a)]

\* Cmd::arg
CmdArg(c, a) == [c EXCEPT !.args = Append(@, a)]

\* Cmd::args: one push per item, in iteration order.
CmdArgs(c, as) == [c EXCEPT !.args = @ \o as]

\* Cmd::env
CmdEnv(c, key, val) == [c EXCEPT !.envs = Append(@, <<key, val>>)]

\* Cmd::no_echo
CmdNoEcho(c) == [c EXCEPT !.suppress_echo = TRUE]

\* The Cmds given as `next` to the pipe methods: built elsewhere, one without
\* and one with no_echo().
NextCmds == {CmdNew("cat"), CmdNoEcho(CmdNew("emit"))}

\* One element (Cmd, PipeMode) of Pipeline.connections.
Stage(c, mode) ==
    [program |-> c.program, mode |-> mode, args |-> c.args, envs |-> c.envs,
     suppress_echo |-> c.suppress_echo]

\* Cmd::into_pipeline
IntoPipeline(c) ==
    [connections |-> <<Stage(c, "Stdout")>>, input |-> None,
     suppress_echo |-> c.suppress_echo]

\* The routing mode a pipe method stores with the stage it appends.
PipeOps == {"pipe_out", "pipe", "pipe_err", "pipe_out_err"}
ModeOf(op) ==
    CASE op = "pipe_err"     -> "Stderr"
      [] op = "pipe_out_err" -> "Both"
      [] OTHER               -> "Stdout"

\* Cmd::pipe_out / pipe / pipe_err / pipe_out_err
CmdPipe(c, next, mode) ==
    [connections |-> <<Stage(c, "Stdout"), Stage(next, mode)>>, input |-> None,
     suppress_echo |-> c.suppress_echo \/ next.suppress_echo]

\* PipelinePipe of a builder that puts the new stage in front.
PipelinePipe_Front(p, next, mode) ==
    [p EXCEPT !.connections = <<Stage(next, mode)>> \o @]

\* Pipeline::pipe_out / pipe / pipe_err / pipe_out_err
PipelinePipe(p, next, mode) == [p EXCEPT !.connections = Append(@, Stage(next, mode))]

\* Pipeline::input / input_bytes / input_bytes_owned: the bytes of the
\* argument (as_bytes().to_vec(), as_ref().to_vec(), the Vec itself).
InputOps == {"input", "input_bytes", "input_bytes_owned"}
PipelineInput(p, bytes) == [p EXCEPT !.input = bytes]

\* ReadExt::pipe: a one-stage pipeline whose input is the reader.
ReadExtPipe(bytes, c) == [IntoPipeline(c) EXCEPT !.input = bytes]

\* Pipeline::no_echo
PipelineNoEcho(p) == [p EXCEPT !.suppress_echo = TRUE]

\* ApplyEnvs in which the first call for a key wins.
RECURSIVE ApplyEnvs_FirstWins(_, _)
ApplyEnvs_FirstWins(env, envs) ==
    IF envs = <<>> THEN env
    ELSE ApplyEnvs_FirstWins(
             [env EXCEPT ![envs[Len(envs)][1]] = envs[Len(envs)][2]],
             SubSeq(envs, 1, Len(envs) - 1))

\* The environment a child is given: the parent's, with each Command::env
\* call applied in order (a later call for a key replaces an earlier one).
RECURSIVE ApplyEnvs(_, _)
ApplyEnvs(env, envs) ==
    IF envs = <<>> THEN env
    ELSE ApplyEnvs([env EXCEPT ![Head(envs)[1]] = Head(envs)[2]], Tail(envs))

\* Pipeline::build_std_command_static
BuildStdCommand(cmd_def) ==
    [program |-> cmd_def.program, argv |-> cmd_def.args,
     env |-> ApplyEnvs(ParentEnv, cmd_def.envs)]

\* ------------------------------------------------------------------ Init
NoChild ==
    [st |-> "unspawned", stdin |-> Unset, stdout |-> Unset, stderr |-> Unset,
     pend_out |-> <<>>, pend_err |-> <<>>, status |-> 0,
     rd |-> <<>>, wo |-> <<>>, we |-> <<>>,
     argv |-> <<>>, env |-> [k \in EnvKeys |-> NotSet]]

\* The stages of the executions: commands without arguments or environment
\* settings.
StageSeqs ==
    UNION {[1..n -> {Stage(CmdNew(p), m) : p \in Programs, m \in PipeMode}] :
             n \in 0..MaxStages}

\* quote_argument has not been called.
NotQuoted == <<"none">>

\* Nothing of an execution has happened yet.
NotStarted ==
    /\ procs = [i \in 1..MaxStages |-> NoChild]
    /\ children = <<>>
    /\ first_exit = 0
    /\ pipes = [p \in PipeIds |-> [made |-> FALSE, buf |-> <<>>]]
    /\ prev_reader = 0
    /\ cmd_writers = {}
    /\ held = [stdin |-> "none", stdout |-> "none", stderr |-> "none"]
    /\ feeder = [st |-> "none", rest |-> <<>>]
    /\ drainers = [stdout |-> "none", stderr |-> "none"]
    /\ lock = "free"
    /\ sink = <<>>
    /\ waited = 0
    /\ handle = "none"
    /\ result = Pending
    /\ echoed = 0

\* A Pipeline as the builder makes it: the first stage is stored with
\* PipeMode::Stdout (Cmd::into_pipeline, Cmd::pipe_out/pipe_err/pipe_out_err).
Init ==
    /\ connections \in {c \in StageSeqs : Len(c) > 0 => c[1].mode = "Stdout"}
    /\ strategy \in Strategies
    /\ input \in IF strategy \in BulkStrategies \cup ReaderStrategies
                 THEN {None} \cup Inputs ELSE {None}
    /\ reader \in IF strategy \in ReaderStrategies THEN Inputs ELSE {<<>>}
    /\ pc = "spawn"
    /\ suppress_echo \in BOOLEAN
    /\ no_echo_env \in BOOLEAN
    /\ cmd = NoCmd
    /\ calls = <<>>
    /\ arg = <<>>
    /\ quoted = NotQuoted
    /\ NotStarted


\* --------------------------------------------------------------- spawner
\* UsesInheritSpawner of a run() that goes through spawn_io_all like output().
UsesInheritSpawner_Never(s) == FALSE

\* Which spawner a strategy calls: run() goes through spawn_inherit_stdio,
\* every other strategy through spawn_io_all (the partial spawn_io_* variants
\* only for two or more stages; for one stage they build the child themselves).
UsesInheritSpawner(s) == s = "run"

\* SinglePiped of one-stage spawn paths that all pipe the child's stdin.
SinglePiped_StdinAlways(s) ==
    CASE s = "run"              -> {"stdin"}
      [] s = "spawn_io_in"      -> {"stdin"}
      [] s = "spawn_io_in_out"  -> {"stdin", "stdout"}
      [] s = "spawn_io_in_err"  -> {"stdin", "stderr"}
      [] s = "spawn_io_out"     -> {"stdin", "stdout"}
      [] s = "spawn_io_err"     -> {"stdin", "stderr"}
      [] s = "spawn_io_out_err" -> {"stdin", "stdout", "stderr"}
      [] OTHER                  -> {"stdin", "stdout", "stderr"}

\* The streams a one-stage spawn path sets to Stdio::piped(); a stream that is
\* not set is inherited from the parent (std::process::Command's default).
SinglePiped(s) ==
    CASE s = "run"              -> {"stdin"}
      [] s = "spawn_io_in"      -> {"stdin"}
      [] s = "spawn_io_in_out"  -> {"stdin", "stdout"}
      [] s = "spawn_io_in_err"  -> {"stdin", "stderr"}
      [] s = "spawn_io_out"     -> {"stdout"}
      [] s = "spawn_io_err"     -> {"stderr"}
      [] s = "spawn_io_out_err" -> {"stdout", "stderr"}
      [] OTHER                  -> {"stdin", "stdout", "stderr"}

\* The handles a partial spawn_io_* variant returns to its caller.
Returned(s) ==
    CASE s = "spawn_io_in"      -> {"stdin"}
      [] s = "spawn_io_in_out"  -> {"stdin", "stdout"}
      [] s = "spawn_io_in_err"  -> {"stdin", "stderr"}
      [] s = "spawn_io_out"     -> {"stdout"}
      [] s = "spawn_io_err"     -> {"stderr"}
      [] s = "spawn_io_out_err" -> {"stdout", "stderr"}
      [] OTHER                  -> {"stdin", "stdout", "stderr"}

\* Stage i's stdin in the multi-stage loop: piped for the first stage, the
\* pending reader for the others.
StdinOf(i) ==
    IF i = 1 THEN ToPipe(PipeIn)
    ELSE IF prev_reader # 0 THEN ToPipe(prev_reader) ELSE Inherit

\* StdoutOf attaching stdout to the edge's pipe whatever the next stage's mode.
StdoutOf_IgnoresMode(i) ==
    IF i = N
    THEN IF UsesInheritSpawner(strategy) THEN Inherit ELSE ToPipe(PipeOut)
    ELSE ToPipe(i)

\* StdoutOf reading the mode stored with the stage itself.
StdoutOf_OwnMode(i) ==
    IF i = N
    THEN IF UsesInheritSpawner(strategy) THEN Inherit ELSE ToPipe(PipeOut)
    ELSE IF Mode(i) \in {"Stdout", "Both"} THEN ToPipe(i) ELSE Inherit

\* Stage i's stdout in the multi-stage loop: for the last stage piped
\* (spawn_io_all) or inherited (spawn_inherit_stdio); for the others the write
\* end of edge i's pipe when the next stage's mode is Stdout or Both.
StdoutOf(i) ==
    IF i = N
    THEN IF UsesInheritSpawner(strategy) THEN Inherit ELSE ToPipe(PipeOut)
    ELSE IF Mode(i + 1) \in {"Stdout", "Both"} THEN ToPipe(i) ELSE Inherit

\* StderrOf without the cloned write end of mode Both.
StderrOf_BothDropsStderr(i) ==
    IF i = N
    THEN IF UsesInheritSpawner(strategy) THEN Inherit ELSE ToPipe(PipeErr)
    ELSE IF Mode(i + 1) = "Stderr" THEN ToPipe(i) ELSE Inherit

\* StderrOf of a spawner that captures the stderr it does not route onward.
StderrOf_Captured(i) ==
    IF i = N
    THEN IF UsesInheritSpawner(strategy) THEN Inherit ELSE ToPipe(PipeErr)
    ELSE IF Mode(i + 1) \in {"Stderr", "Both"} THEN ToPipe(i) ELSE ToPipe(PipeErr)

\* Stage i's stderr in the multi-stage loop: as StdoutOf, for modes Stderr
\* and Both.
StderrOf(i) ==
    IF i = N
    THEN IF UsesInheritSpawner(strategy) THEN Inherit ELSE ToPipe(PipeErr)
    ELSE IF Mode(i + 1) \in {"Stderr", "Both"} THEN ToPipe(i) ELSE Inherit

\* What a program will write without reading anything.
Script(prog, stream) ==
    IF prog = "emit" THEN (IF stream = "stdout" THEN EmitOut ELSE EmitErr) ELSE <<>>

Started(i, in, out, err) ==
    [NoChild EXCEPT !.st = "running", !.stdin = in, !.stdout = out, !.stderr = err,
                    !.argv = BuildStdCommand(connections[i]).argv,
                    !.env = BuildStdCommand(connections[i]).env,
                    !.pend_out = Script(Program(i), "stdout"),
                    !.pend_err = Script(Program(i), "stderr")]

MakePipes(ps) == [p \in PipeIds |-> IF p \in ps THEN [pipes[p] EXCEPT !.made = TRUE] ELSE pipes[p]]

\* Taken of a spawner that leaves the piped stdout in the Child.
Taken_NotStdout(piped) == piped \ {"stdout"}

\* The piped streams a spawner takes out of the Child it spawned
\* (child.stdin.take(), child.stdout.take(), child.stderr.take()): every
\* spawn path takes each stream it set to Stdio::piped().
Taken(piped) == piped

\* The handles of a PipelineSpawn as the spawner fills them; a piped stream
\* that is not taken stays in the Child of the PipelineHandle.
HeldAfter(set) ==
    [h \in {"stdin", "stdout", "stderr"} |->
        IF h \in Taken(set) THEN "spawn" ELSE IF h \in set THEN "handle" ELSE held[h]]

\* ------------------------------------------------------------------ echo
\* should_echo of an echo that NO_ECHO does not silence.
should_echo_Always == TRUE

\* output::should_echo: NO_ECHO is not set.
should_echo == ~no_echo_env

\* echo_pipeline: one transcript line on the parent's stderr, unless NO_ECHO
\* is set; n is the number of lines printed before.
echo_pipeline(n) == IF should_echo THEN n + 1 ELSE n

\* if !self.suppress_echo { self.echo_pipeline(); }
EchoUnless(suppressed, n) == IF suppressed THEN n ELSE echo_pipeline(n)

\* The pipe symbol echo_pipeline prints in front of a stage.
PipeSymbol(mode) ==
    CASE mode = "Stdout" -> "|"
      [] mode = "Stderr" -> "|&"
      [] mode = "Both"   -> "|&&"

\* The parts of the transcript line from stage i on: for each stage the pipe
\* symbol of its mode, unless it is the first, then its program (the parts
\* for the directory, the environment and the arguments are left out).
RECURSIVE EchoParts(_, _)
EchoParts(cs, i) ==
    IF i > Len(cs) THEN <<>>
    ELSE (IF i > 1 THEN <<PipeSymbol(cs[i].mode)>> ELSE <<>>)
         \o <<cs[i].program>> \o EchoParts(cs, i + 1)

\* The spawn_io_* variants other than spawn_io_all.
PartialSpawnStrategies == SpawnStrategies \ {"spawn_io_all"}

\* The transcript lines printed once the strategy has entered its spawner.
\* run and output go through execute_internal, which echoes and then calls
\* the spawner with suppress_echo set; a partial spawn_io_* variant echoes
\* and, for two or more stages, calls spawn_io_all, which echoes again with
\* the same flag; every other strategy calls spawn_io_all only.
EchoedOnEntry ==
    CASE strategy \in {"run", "output"} ->
             EchoUnless(TRUE, EchoUnless(suppress_echo, echoed))
      [] strategy \in PartialSpawnStrategies /\ N >= 2 ->
             EchoUnless(suppress_echo, EchoUnless(suppress_echo, echoed))
      [] OTHER ->
             EchoUnless(suppress_echo, echoed)

\* SpawnEmpty of a spawner that takes a pipeline with no stage for an error.
SpawnEmpty_Fails ==
    /\ pc = "spawn"
    /\ N = 0
    /\ result' = [Pending EXCEPT !.kind = "Err", !.message = "Invalid command"]
    /\ pc' = "done"
    /\ echoed' = EchoedOnEntry
    /\ UNCHANGED <<caller_vars, connections, input, reader, strategy, cmd_writers, procs, children,
                   first_exit, pipes, prev_reader, held, feeder, drainers, lock, sink,
                   waited, handle>>

\* A spawner on a pipeline with no stage: no child, every handle None.
SpawnEmpty ==
    /\ pc = "spawn"
    /\ N = 0
    /\ handle' = "live"
    /\ pc' = "spawned"
    /\ echoed' = EchoedOnEntry
    /\ UNCHANGED <<caller_vars, connections, input, reader, strategy, cmd_writers, procs, children, first_exit, pipes,
                   prev_reader, held, feeder, drainers, lock, sink, waited, result>>

\* The one-stage path of every spawner.
SpawnSingle ==
    /\ pc = "spawn"
    /\ N = 1
    /\ LET piped == SinglePiped(strategy)
           fd(h, p) == IF h \in piped THEN ToPipe(p) ELSE Inherit
       IN  IF Program(1) = "nope"
           THEN /\ result' = SpawnError(1)
                /\ pc' = "done"
                /\ UNCHANGED <<procs, children, pipes, held, handle>>
           ELSE /\ procs' = [procs EXCEPT ![1] =
                       Started(1, fd("stdin", PipeIn), fd("stdout", PipeOut),
                               fd("stderr", PipeErr))]
                /\ children' = <<1>>
                /\ pipes' = MakePipes({p \in {PipeIn, PipeOut, PipeErr} :
                                  \/ p = PipeIn /\ "stdin" \in piped
                                  \/ p = PipeOut /\ "stdout" \in piped
                                  \/ p = PipeErr /\ "stderr" \in piped})
                /\ held' = HeldAfter(piped)
                /\ handle' = "live"
                /\ pc' = "spawned"
                /\ UNCHANGED result
    /\ echoed' = EchoedOnEntry
    /\ UNCHANGED <<caller_vars, connections, input, reader, strategy, cmd_writers, first_exit, prev_reader, feeder,
                   drainers, lock, sink, waited>>

\* LoopIndex iterating the stages from the last to the first.
LoopIndex_Reverse == N - Len(children)

\* The stage the multi-stage loop is at: connections.iter().enumerate().
LoopIndex == Len(children) + 1

\* ChildrenAfterFailedSpawn of a spawner that kills and reaps what it started.
ChildrenAfterFailedSpawn_Reaped ==
    [i \in 1..MaxStages |->
        IF procs[i].st = "running" THEN [procs[i] EXCEPT !.st = "reaped", !.status = NoCode]
        ELSE procs[i]]

\* A failed spawn returns with `?`: the Vec<Child> is dropped, and dropping a
\* Child neither kills it nor waits on it, so the processes are as they were.
ChildrenAfterFailedSpawn == procs

\* WritersKept of a spawner that keeps the Command of every stage alive.
WritersKept_Leaked(edge) == cmd_writers \cup edge

\* The write ends the parent still holds at the end of an iteration that made
\* the pipe of `edge`: the ends were moved into the loop-local Command
\* (Stdio::from(writer)), which is dropped at the end of the loop body or by
\* the `?` of a failed spawn.
WritersKept(edge) == {}

\* One iteration of the multi-stage loop of spawn_io_all and
\* spawn_inherit_stdio: wire stage i, create the pipe of edge i unless i is
\* the last stage, spawn.  A failed spawn returns at once: the locals (the
\* children, the pending reader, the first stdin) are dropped.  After the
\* last iteration the spawner returns the PipelineSpawn.
SpawnStage ==
    /\ pc = "spawn"
    /\ N >= 2
    /\ Len(children) < N
    /\ LET i == LoopIndex
           is_last == i = N
           edge == IF is_last THEN {} ELSE {i}
           lastPiped == is_last /\ ~UsesInheritSpawner(strategy)
       IN  IF Program(i) = "nope"
           THEN /\ result' = SpawnError(i)
                /\ pipes' = MakePipes(edge)
                /\ prev_reader' = 0
                /\ held' = [held EXCEPT !.stdin = IF @ = "spawn" THEN "closed" ELSE @]
                /\ handle' = IF Len(children) > 0 THEN "dropped" ELSE handle
                /\ pc' = "done"
                /\ procs' = ChildrenAfterFailedSpawn
                /\ cmd_writers' = WritersKept(edge)
                /\ UNCHANGED children
           ELSE /\ procs' = [procs EXCEPT ![i] =
                       Started(i, StdinOf(i), StdoutOf(i), StderrOf(i))]
                /\ children' = Append(children, i)
                /\ pipes' = MakePipes(edge \cup (IF i = 1 THEN {PipeIn} ELSE {})
                                           \cup (IF lastPiped THEN {PipeOut, PipeErr} ELSE {}))
                /\ prev_reader' = IF is_last THEN 0 ELSE i
                /\ held' = HeldAfter((IF i = 1 THEN {"stdin"} ELSE {})
                                     \cup (IF lastPiped THEN {"stdout", "stderr"} ELSE {}))
                /\ handle' = IF is_last THEN "live" ELSE handle
                /\ pc' = IF is_last THEN "spawned" ELSE "spawn"
                /\ cmd_writers' = WritersKept(edge)
                /\ UNCHANGED result
    /\ echoed' = IF children = <<>> THEN EchoedOnEntry ELSE echoed
    /\ UNCHANGED <<caller_vars, connections, input, reader, strategy, first_exit, feeder, drainers, lock,
                   sink, waited>>


\* ------------------------------------------------------- the OS: pipes
\* The owners of an open handle of the parent: the PipelineSpawn, a worker
\* thread, the caller of a spawn_io_* method, or the Child inside the
\* PipelineHandle (a piped stream that was not taken out of it).
Open == {"spawn", "feeder", "drainer", "caller", "handle"}

\* Some open handle on the write end of pipe p: a running child's stdout or
\* stderr, a Command of the parent, or the parent's handle on the first
\* stage's stdin.
HasWriter(p) ==
    \/ \E i \in 1..MaxStages :
          /\ procs[i].st = "running"
          /\ ToPipe(p) \in {procs[i].stdout, procs[i].stderr}
    \/ p \in cmd_writers
    \/ p = PipeIn /\ held.stdin \in Open

\* Some open handle on the read end of pipe p: a running child's stdin, the
\* spawner's pending reader, or the parent's handle on the last stage's
\* stdout or stderr.
HasReader(p) ==
    \/ \E i \in 1..MaxStages : procs[i].st = "running" /\ procs[i].stdin = ToPipe(p)
    \/ prev_reader # 0 /\ prev_reader = p
    \/ p = PipeOut /\ held.stdout \in Open
    \/ p = PipeErr /\ held.stderr \in Open

Push(p, b) == [pipes EXCEPT ![p].buf = Append(@, b)]
Pop(p) == [pipes EXCEPT ![p].buf = Tail(@)]

\* End of input on the read end of pipe p.
AtEof(p) == pipes[p].buf = <<>> /\ ~HasWriter(p)

\* ------------------------------------------------------- child processes
\* "cat" reads one chunk of its stdin when it has nothing left to write.
ChildRead(i) ==
    /\ procs[i].st = "running"
    /\ Program(i) = "cat"
    /\ procs[i].pend_out = <<>>
    /\ procs[i].stdin.kind = "pipe"
    /\ LET p == procs[i].stdin.id
       IN  /\ pipes[p].buf # <<>>
           /\ procs' = [procs EXCEPT ![i].pend_out = <<Head(pipes[p].buf)>>,
                                           ![i].rd = Append(@, Head(pipes[p].buf))]
           /\ pipes' = Pop(p)
    /\ UNCHANGED <<caller_vars, echoed, connections, input, reader, strategy, cmd_writers, pc, children, first_exit, prev_reader,
                   held, feeder, drainers, lock, sink, waited, handle, result>>

\* A child writes to its stdout or stderr: all it has to the terminal when the
\* stream is inherited (that write never blocks), the next byte into the pipe
\* when there is room, and it is killed by SIGPIPE when no read end of the pipe
\* is open.
ChildWrite(i, s) ==
    /\ procs[i].st = "running"
    /\ LET pend == IF s = "stdout" THEN procs[i].pend_out ELSE procs[i].pend_err
           fd == procs[i][s]
           wrote(n) ==
               IF s = "stdout"
               THEN [procs EXCEPT ![i].pend_out = SubSeq(pend, n + 1, Len(pend)),
                                     ![i].wo = @ \o SubSeq(pend, 1, n)]
               ELSE [procs EXCEPT ![i].pend_err = SubSeq(pend, n + 1, Len(pend)),
                                     ![i].we = @ \o SubSeq(pend, 1, n)]
       IN  /\ pend # <<>>
           /\ \/ /\ fd.kind = "inherit"
                 /\ procs' = wrote(Len(pend))
                 /\ UNCHANGED pipes
              \/ /\ fd.kind = "pipe"
                 /\ HasReader(fd.id)
                 /\ Len(pipes[fd.id].buf) < PipeCap
                 /\ procs' = wrote(1)
                 /\ pipes' = Push(fd.id, Head(pend))
              \/ /\ fd.kind = "pipe"
                 /\ ~HasReader(fd.id)
                 /\ procs' = [procs EXCEPT ![i].st = "exited", ![i].status = NoCode]
                 /\ UNCHANGED pipes
    /\ first_exit' = IF first_exit = 0 /\ procs'[i].st = "exited" THEN i ELSE first_exit
    /\ UNCHANGED <<caller_vars, echoed, connections, input, reader, strategy, cmd_writers, pc, children, prev_reader,
                   held, feeder, drainers, lock, sink, waited, handle, result>>

\* A child exits with code c once it has written everything and, for "cat",
\* its stdin is at end of input (an inherited stdin is taken to be at its end).
ChildExit(i, c) ==
    /\ procs[i].st = "running"
    /\ procs[i].pend_out = <<>>
    /\ procs[i].pend_err = <<>>
    /\ (Program(i) = "cat" /\ procs[i].stdin.kind = "pipe") => AtEof(procs[i].stdin.id)
    /\ procs' = [procs EXCEPT ![i].st = "exited", ![i].status = c]
    /\ first_exit' = IF first_exit = 0 THEN i ELSE first_exit
    /\ UNCHANGED <<caller_vars, echoed, connections, input, reader, strategy, cmd_writers, pc, children, pipes, prev_reader,
                   held, feeder, drainers, lock, sink, waited, handle, result>>

\* ------------------------------------------------------------ strategies
\* The stream a strategy copies in the calling thread ("both": it copies
\* stdout and stderr in two worker threads instead; "none": it copies nothing).
DrainStream(s) ==
    CASE s \in {"output", "write_to", "run_with_io"} -> "stdout"
      [] s \in {"write_err_to", "run_with_err_io"}   -> "stderr"
      [] s \in BothStrategies                        -> "both"
      [] OTHER                                       -> "none"

DrainPipe(s) == IF DrainStream(s) = "stdout" THEN PipeOut ELSE PipeErr

\* FeedSource taking the caller's reader in every strategy.
FeedSource_Reader == reader

\* What the feeder thread is given: the bulk input in run / output / write_*,
\* the caller's reader in run_with_*.
FeedSource == IF strategy \in ReaderStrategies THEN reader ELSE input

\* The strategy starts the input worker thread when there is something to
\* feed and a stdin handle to feed it to; the thread takes the handle.
StartFeeder ==
    /\ pc = "spawned"
    /\ strategy \notin SpawnStrategies
    /\ IF FeedSource # None /\ held.stdin = "spawn"
       THEN /\ feeder' = [st |-> "running", rest |-> FeedSource]
            /\ held' = [held EXCEPT !.stdin = "feeder"]
       ELSE UNCHANGED <<feeder, held>>
    /\ pc' = "drain"
    /\ UNCHANGED <<caller_vars, echoed, connections, input, reader, strategy, cmd_writers, procs, children, first_exit, pipes,
                   prev_reader, drainers, lock, sink, waited, handle, result>>

\* stdin.write_all(&bytes) / copy(&mut reader, &mut stdin), a byte at a time;
\* a write error (no read end left) ends the copy and is ignored.
FeederWrite ==
    /\ feeder.st = "running"
    /\ feeder.rest # <<>>
    /\ \/ /\ HasReader(PipeIn)
          /\ Len(pipes[PipeIn].buf) < PipeCap
          /\ pipes' = Push(PipeIn, Head(feeder.rest))
          /\ feeder' = [feeder EXCEPT !.rest = Tail(@)]
          /\ UNCHANGED held
       \/ /\ ~HasReader(PipeIn)
          /\ feeder' = [feeder EXCEPT !.st = "done"]
          /\ held' = [held EXCEPT !.stdin = "closed"]
          /\ UNCHANGED pipes
    /\ UNCHANGED <<caller_vars, echoed, connections, input, reader, strategy, cmd_writers, pc, procs, children, first_exit,
                   prev_reader, drainers, lock, sink, waited, handle, result>>

\* FeederClose of a feeder that may drop stdin before it has written all.
FeederClose_Early ==
    /\ feeder.st = "running"
    /\ feeder' = [feeder EXCEPT !.st = "done"]
    /\ held' = [held EXCEPT !.stdin = "closed"]
    /\ UNCHANGED <<caller_vars, echoed, connections, input, reader, strategy, cmd_writers, pc, procs, children,
                   first_exit, pipes, prev_reader, drainers, lock, sink, waited, handle,
                   result>>

\* drop(stdin) at the end of the feeder thread.
FeederClose ==
    /\ feeder.st = "running"
    /\ feeder.rest = <<>>
    /\ feeder' = [feeder EXCEPT !.st = "done"]
    /\ held' = [held EXCEPT !.stdin = "closed"]
    /\ UNCHANGED <<caller_vars, echoed, connections, input, reader, strategy, cmd_writers, pc, procs, children, first_exit, pipes,
                   prev_reader, drainers, lock, sink, waited, handle, result>>

\* DrainRead of a calling thread that feeds the whole input before it reads.
DrainRead_AfterFeed ==
    /\ feeder.st # "running"
    /\ pc = "drain"
    /\ DrainStream(strategy) \in {"stdout", "stderr"}
    /\ held[DrainStream(strategy)] = "spawn"
    /\ pipes[DrainPipe(strategy)].buf # <<>>
    /\ sink' = Append(sink, Head(pipes[DrainPipe(strategy)].buf))
    /\ pipes' = Pop(DrainPipe(strategy))
    /\ UNCHANGED <<caller_vars, echoed, connections, input, reader, strategy, cmd_writers, pc, procs, children, first_exit,
                   prev_reader, held, feeder, drainers, lock, waited, handle, result>>

\* read_to_end / copy of the drained stream in the calling thread.
DrainRead ==
    /\ pc = "drain"
    /\ DrainStream(strategy) \in {"stdout", "stderr"}
    /\ held[DrainStream(strategy)] = "spawn"
    /\ pipes[DrainPipe(strategy)].buf # <<>>
    /\ sink' = Append(sink, Head(pipes[DrainPipe(strategy)].buf))
    /\ pipes' = Pop(DrainPipe(strategy))
    /\ UNCHANGED <<caller_vars, echoed, connections, input, reader, strategy, cmd_writers, pc, procs, children, first_exit,
                   prev_reader, held, feeder, drainers, lock, waited, handle, result>>

\* DrainDone of a copy that stops before the end of input.
DrainDone_Early ==
    /\ pc = "drain"
    /\ DrainStream(strategy) # "both"
    /\ pc' = "join"
    /\ UNCHANGED <<caller_vars, echoed, connections, input, reader, strategy, cmd_writers, procs, children,
                   first_exit, pipes, prev_reader, held, feeder, drainers, lock, sink,
                   waited, handle, result>>

\* The copy ends at end of input; a strategy that drains nothing, or has no
\* handle to drain, goes on at once.
DrainDone ==
    /\ pc = "drain"
    /\ \/ DrainStream(strategy) = "none"
       \/ /\ DrainStream(strategy) \in {"stdout", "stderr"}
          /\ held[DrainStream(strategy)] # "spawn"
       \/ /\ DrainStream(strategy) \in {"stdout", "stderr"}
          /\ held[DrainStream(strategy)] = "spawn"
          /\ AtEof(DrainPipe(strategy))
    /\ pc' = "join"
    /\ UNCHANGED <<caller_vars, echoed, connections, input, reader, strategy, cmd_writers, procs, children, first_exit, pipes,
                   prev_reader, held, feeder, drainers, lock, sink, waited, handle, result>>

\* write_both_to / run_with_both_io start one worker thread per stream the
\* PipelineSpawn holds; each thread takes its stream.
StartDrainers ==
    /\ pc = "drain"
    /\ DrainStream(strategy) = "both"
    /\ drainers' = [s \in {"stdout", "stderr"} |->
                      IF held[s] = "spawn" THEN "waiting" ELSE drainers[s]]
    /\ held' = [h \in {"stdin", "stdout", "stderr"} |->
                  IF h # "stdin" /\ held[h] = "spawn" THEN "drainer" ELSE held[h]]
    /\ pc' = "join"
    /\ UNCHANGED <<caller_vars, echoed, connections, input, reader, strategy, cmd_writers, procs, children, first_exit, pipes,
                   prev_reader, feeder, lock, sink, waited, handle, result>>

StreamPipe(s) == IF s = "stdout" THEN PipeOut ELSE PipeErr

\* writer.lock() in a drain worker: the guard is held for the whole copy.
DrainerLock(s) ==
    /\ drainers[s] = "waiting"
    /\ lock = "free"
    /\ lock' = s
    /\ drainers' = [drainers EXCEPT ![s] = "copying"]
    /\ UNCHANGED <<caller_vars, echoed, connections, input, reader, strategy, cmd_writers, pc, procs, children, first_exit, pipes,
                   prev_reader, held, feeder, sink, waited, handle, result>>

\* copy(&mut BufReader::new(stream), &mut *guard) in a drain worker.
DrainerRead(s) ==
    /\ drainers[s] = "copying"
    /\ pipes[StreamPipe(s)].buf # <<>>
    /\ sink' = Append(sink, Head(pipes[StreamPipe(s)].buf))
    /\ pipes' = Pop(StreamPipe(s))
    /\ UNCHANGED <<caller_vars, echoed, connections, input, reader, strategy, cmd_writers, pc, procs, children, first_exit,
                   prev_reader, held, feeder, drainers, lock, waited, handle, result>>

\* The copy of a drain worker ends at end of input: the guard and the stream
\* are dropped and the thread ends.
DrainerDone(s) ==
    /\ drainers[s] = "copying"
    /\ AtEof(StreamPipe(s))
    /\ drainers' = [drainers EXCEPT ![s] = "done"]
    /\ lock' = "free"
    /\ held' = [held EXCEPT ![s] = "closed"]
    /\ UNCHANGED <<caller_vars, echoed, connections, input, reader, strategy, cmd_writers, pc, procs, children, first_exit, pipes,
                   prev_reader, feeder, sink, waited, handle, result>>

\* JoinFeeder of a strategy that returns the write error of the feeder thread
\* it joins.
JoinFeeder_Propagates ==
    /\ pc = "join"
    /\ (strategy \in BulkStrategies /\ feeder.st # "none") => feeder.st = "done"
    /\ \A s \in {"stdout", "stderr"} : drainers[s] \in {"none", "done"}
    /\ IF strategy \in BulkStrategies /\ feeder.st = "done" /\ feeder.rest # <<>>
       THEN /\ result' = [Pending EXCEPT !.kind = "Err", !.message = "Failed to write stdin",
                                         !.source = TRUE]
            /\ pc' = "done"
            /\ handle' = "dropped"
       ELSE /\ pc' = "wait"
            /\ handle' = "waiting"
            /\ UNCHANGED result
    /\ UNCHANGED <<caller_vars, echoed, connections, input, reader, strategy, cmd_writers, procs, children,
                   first_exit, pipes, prev_reader, held, feeder, drainers, lock, sink,
                   waited>>

\* JoinFeeder of a strategy that calls wait() without joining its threads.
JoinFeeder_NoJoin ==
    /\ pc = "join"
    /\ pc' = "wait"
    /\ handle' = "waiting"
    /\ UNCHANGED <<caller_vars, echoed, connections, input, reader, strategy, cmd_writers, procs,
                   children, first_exit, pipes, prev_reader, held, feeder, drainers, lock,
                   sink, waited, result>>

\* handle.join() on the worker threads: the feeder (run, output, write_*;
\* run_with_* does not join it) and the drain workers.  Then
\* spawn.handle.wait() is called.
JoinFeeder ==
    /\ pc = "join"
    /\ (strategy \in BulkStrategies /\ feeder.st # "none") => feeder.st = "done"
    /\ \A s \in {"stdout", "stderr"} : drainers[s] \in {"none", "done"}
    /\ pc' = "wait"
    /\ handle' = "waiting"
    /\ UNCHANGED <<caller_vars, echoed, connections, input, reader, strategy, cmd_writers, procs, children, first_exit, pipes,
                   prev_reader, held, feeder, drainers, lock, sink, waited, result>>

\* The handles still in the PipelineSpawn are dropped when the strategy returns.
DropHeld == [h \in {"stdin", "stdout", "stderr"} |-> IF held[h] = "spawn" THEN "closed" ELSE held[h]]

\* NextToWait going through the children from the last to the first.
NextToWait_Reverse == children[Len(children) - waited]

\* The child PipelineHandle::wait waits on next: `for mut child in
\* self.children`.
NextToWait == children[waited + 1]

\* Success that takes every exit status for a success.
Success_Always(status) == TRUE

\* Success that only takes a death by signal for a failure.
Success_UnlessSignal(status) == status # NoCode

\* status.success()
Success(status) == status = 0

\* One iteration of PipelineHandle::wait: child.wait() returns once the child
\* has exited; a status that is not success returns Error::exit_code at once.
WaitChild ==
    /\ pc = "wait"
    /\ waited < Len(children)
    /\ LET k == NextToWait
       IN  /\ procs[k].st = "exited"
           /\ procs' = [procs EXCEPT ![k].st = "reaped"]
           /\ waited' = waited + 1
           /\ IF ~Success(procs[k].status)
              THEN /\ result' = ExitCodeError(procs[k].status)
                   /\ held' = DropHeld
                   /\ handle' = "dropped"
                   /\ pc' = "done"
              ELSE UNCHANGED <<result, held, handle, pc>>
    /\ UNCHANGED <<caller_vars, echoed, connections, input, reader, strategy, cmd_writers, children, first_exit, pipes, prev_reader,
                   feeder, drainers, lock, sink>>

\* Error::io("Failed to read stdout", e) of output(), Error::io("Failed to
\* copy pipeline <stream> to writer", e) of write_to, write_err_to,
\* run_with_io and run_with_err_io.
DrainError(s) ==
    [Pending EXCEPT !.kind = "Err",
                    !.message = IF s = "output" THEN "Failed to read stdout"
                                ELSE "Failed to copy pipeline output to writer",
                    !.source = TRUE]

\* The read of the drained stream or the write to the caller's sink fails in
\* the calling thread: map_err and `?` return the error at once, the
\* PipelineSpawn is dropped with its handles, no thread is joined and no
\* child is waited on.
DrainFail ==
    /\ pc = "drain"
    /\ DrainStream(strategy) \in {"stdout", "stderr"}
    /\ held[DrainStream(strategy)] = "spawn"
    /\ result' = DrainError(strategy)
    /\ held' = [DropHeld EXCEPT ![DrainStream(strategy)] = "failed"]
    /\ handle' = "dropped"
    /\ pc' = "done"
    /\ UNCHANGED <<caller_vars, echoed, connections, input, reader, strategy, cmd_writers, procs, children,
                   first_exit, pipes, prev_reader, feeder, drainers, lock, sink, waited>>

\* The same failure in a drain worker of write_both_to / run_with_both_io:
\* `let _ = copy(..)` drops the error, the guard and the stream are dropped
\* and the thread ends like one that copied to the end.
DrainerFail(s) ==
    /\ drainers[s] = "copying"
    /\ drainers' = [drainers EXCEPT ![s] = "done"]
    /\ lock' = "free"
    /\ held' = [held EXCEPT ![s] = "failed"]
    /\ UNCHANGED <<caller_vars, echoed, connections, input, reader, strategy, cmd_writers, pc, procs, children,
                   first_exit, pipes, prev_reader, feeder, sink, waited, handle, result>>

\* What a strategy returns when wait() returned Ok.
Returns(s) == IF s = "output" THEN Ok(sink) ELSE Ok(<<>>)

\* wait() has waited on every child: the strategy returns Ok.
Finish ==
    /\ pc = "wait"
    /\ waited = Len(children)
    /\ result' = Returns(strategy)
    /\ held' = DropHeld
    /\ handle' = "dropped"
    /\ pc' = "done"
    /\ UNCHANGED <<caller_vars, echoed, connections, input, reader, strategy, cmd_writers, procs, children, first_exit, pipes,
                   prev_reader, feeder, drainers, lock, sink, waited>>

\* ReturnSpawn of a method that keeps the streams it does not return open.
ReturnSpawn_KeepsAll ==
    /\ pc = "spawned"
    /\ strategy \in SpawnStrategies
    /\ held' = [h \in {"stdin", "stdout", "stderr"} |->
                  IF held[h] = "spawn" /\ h \in Returned(strategy) THEN "caller" ELSE held[h]]
    /\ result' = Ok(<<>>)
    /\ pc' = "done"
    /\ UNCHANGED <<caller_vars, echoed, connections, input, reader, strategy, cmd_writers, procs,
                   children, first_exit, pipes, prev_reader, feeder, drainers, lock, sink,
                   waited, handle>>

\* A spawn_io_* method returns the handle and the streams it retains to the
\* caller; the streams it does not return are dropped.
ReturnSpawn ==
    /\ pc = "spawned"
    /\ strategy \in SpawnStrategies
    /\ held' = [h \in {"stdin", "stdout", "stderr"} |->
                  IF held[h] # "spawn" THEN held[h]
                  ELSE IF h \in Returned(strategy) THEN "caller" ELSE "closed"]
    /\ result' = Ok(<<>>)
    /\ pc' = "done"
    /\ UNCHANGED <<caller_vars, echoed, connections, input, reader, strategy, cmd_writers, procs, children, first_exit, pipes,
                   prev_reader, feeder, drainers, lock, sink, waited, handle>>

Next ==
    \/ SpawnEmpty
    \/ SpawnSingle
    \/ SpawnStage
    \/ StartFeeder
    \/ FeederWrite
    \/ FeederClose
    \/ DrainRead
    \/ DrainDone
    \/ StartDrainers
    \/ \E s \in {"stdout", "stderr"} : DrainerLock(s)
    \/ \E s \in {"stdout", "stderr"} : DrainerRead(s)
    \/ \E s \in {"stdout", "stderr"} : DrainerDone(s)
    \/ JoinFeeder
    \/ WaitChild
    \/ Finish
    \/ ReturnSpawn
    \/ \E i \in 1..MaxStages : ChildRead(i)
    \/ \E i \in 1..MaxStages, s \in {"stdout", "stderr"} : ChildWrite(i, s)
    \/ \E i \in 1..MaxStages : \E c \in ExitCodes(i) : ChildExit(i, c)

\* The spawner alone: every pipeline of up to MaxStages stages, under every
\* strategy, up to the spawner's return.
NextSpawner ==
    \/ SpawnEmpty
    \/ SpawnSingle
    \/ SpawnStage
    \/ ReturnSpawn

SpecSpawner == Init /\ [][NextSpawner]_vars

\* Pipelines as code of the crate can build them (connections is
\* pub(crate)): any mode stored with the first stage.
InitCrate ==
    /\ connections \in StageSeqs
    /\ strategy \in Strategies
    /\ input = None
    /\ reader = <<>>
    /\ pc = "spawn"
    /\ suppress_echo = FALSE
    /\ no_echo_env = FALSE
    /\ cmd = NoCmd
    /\ calls = <<>>
    /\ arg = <<>>
    /\ quoted = NotQuoted
    /\ NotStarted

SpecCrate == InitCrate /\ [][NextSpawner]_vars

\* Whole executions, children included, of the pipelines of up to
\* MaxRunStages stages, with echo on (suppress_echo false, NO_ECHO not set).
InitRun == Init /\ N <= MaxRunStages /\ ~suppress_echo /\ ~no_echo_env

Spec == InitRun /\ [][Next]_vars

\* Whole executions with every setting of suppress_echo and NO_ECHO, on
\* inputs of up to MaxEchoInput bytes.
InitEcho ==
    /\ Init
    /\ N <= MaxRunStages
    /\ input # None => Len(input) <= MaxEchoInput
    /\ Len(reader) <= MaxEchoInput

SpecEcho == InitEcho /\ [][Next]_vars

\* The same executions with the scheduling of the OS: a thread or a child
\* process that can take a step is not kept from it for ever.  No step of
\* Next undoes another, so fairness of Next as a whole says as much.
SpecFair == Spec /\ WF_vars(Next)

\* The same executions in an environment where reading a drained stream or
\* writing the caller's sink may fail.
NextIo ==
    \/ Next
    \/ DrainFail
    \/ \E s \in {"stdout", "stderr"} : DrainerFail(s)

SpecIo == InitRun /\ [][NextIo]_vars

\* -------------------------------------------------------- quote_argument
\* The characters of an argument, each standing for a class the code tells
\* apart: a letter, a space, a tab (a control character with a short escape),
\* ESC (a control character without one), the single and the double quote,
\* the backslash, a glob character, and a byte that is not valid UTF-8.
Chars == {"a", "SP", "TAB", "ESC", "SQ", "DQ", "BS", "STAR", "BAD"}

\* The arguments quote_argument is given: every string of up to MaxArgLen
\* characters.
ArgStrings == UNION {[1..n -> Chars] : n \in 0..MaxArgLen}

\* OsStr::to_string_lossy: a byte that is not valid UTF-8 becomes U+FFFD.
to_string_lossy(s) == [k \in 1..Len(s) |-> IF s[k] = "BAD" THEN "REPL" ELSE s[k]]

\* NeedsQuoting that leaves the glob characters out.
NeedsQuoting_NoGlob(c) == c \in {"SP", "TAB", "ESC", "SQ", "DQ"}

\* The matches! of needs_quoting: whitespace, quotes, control characters and
\* the listed punctuation; the backslash is not among them.
NeedsQuoting(c) == c \in {"SP", "TAB", "ESC", "SQ", "DQ", "STAR"}

\* One character of escape_control_chars: \t for a tab, \x1b for ESC.
EscapeChar(c) ==
    CASE c = "TAB" -> <<"BS", "t">>
      [] c = "ESC" -> <<"BS", "x", "1", "b">>
      [] OTHER     -> <<c>>

RECURSIVE escape_control_chars(_)
escape_control_chars(s) ==
    IF s = <<>> THEN <<>> ELSE EscapeChar(Head(s)) \o escape_control_chars(Tail(s))

\* str::replace of one character by a string.
RECURSIVE Replace(_, _, _)
Replace(s, from, to) ==
    IF s = <<>> THEN <<>>
    ELSE (IF Head(s) = from THEN to ELSE <<Head(s)>>) \o Replace(Tail(s), from, to)

\* Cmd::quote_argument
quote_argument(a) ==
    LET arg_str == to_string_lossy(a)
        needs_quoting == \E k \in 1..Len(arg_str) : NeedsQuoting(arg_str[k])
    IN  IF arg_str = <<>> THEN <<"DQ", "DQ">>
        ELSE IF \E k \in 1..Len(arg_str) : arg_str[k] = "SQ"
        THEN <<"DQ">>
             \o escape_control_chars(
                    Replace(Replace(arg_str, "BS", <<"BS", "BS">>), "DQ", <<"BS", "DQ">>))
             \o <<"DQ">>
        ELSE IF needs_quoting
        THEN <<"SQ">> \o escape_control_chars(arg_str) \o <<"SQ">>
        ELSE arg_str

\* One call of quote_argument.
QuoteArgument ==
    /\ pc = "quote"
    /\ quoted = NotQuoted
    /\ quoted' = quote_argument(arg)
    /\ UNCHANGED <<connections, input, reader, strategy, pc, procs, children, first_exit,
                   pipes, prev_reader, cmd_writers, held, feeder, drainers, lock, sink,
                   waited, handle, result, cmd, calls, suppress_echo, no_echo_env, arg,
                   echoed>>

InitQuote ==
    /\ arg \in ArgStrings
    /\ quoted = NotQuoted
    /\ pc = "quote"
    /\ connections = <<>>
    /\ input = None
    /\ reader = <<>>
    /\ strategy = "none"
    /\ cmd = NoCmd
    /\ calls = <<>>
    /\ suppress_echo = FALSE
    /\ no_echo_env = FALSE
    /\ NotStarted

SpecQuote == InitQuote /\ [][QuoteArgument]_vars

\* --------------------------------------------------------------- builder
\* The Pipeline the builder chain is on, once it is one.
Self == [connections |-> connections, input |-> input, suppress_echo |-> suppress_echo]

\* The chain goes on with Pipeline p.
Becomes(p) ==
    /\ connections' = p.connections
    /\ input' = p.input
    /\ suppress_echo' = p.suppress_echo

Logged(op, val) == calls' = Append(calls, [op |-> op, val |-> val])

\* The log holds the construction of the Cmd and at most MaxCalls calls.
CanCall == Len(calls) <= MaxCalls

exec_vars == <<reader, strategy, procs, children, first_exit, pipes, prev_reader,
               cmd_writers, held, feeder, drainers, lock, sink, waited, handle, result,
               echoed, no_echo_env, arg, quoted>>

\* cmd.arg(a)
Arg(a) ==
    /\ pc = "cmd"
    /\ CanCall
    /\ cmd' = CmdArg(cmd, a)
    /\ Logged("arg", a)
    /\ UNCHANGED <<pc, connections, input, suppress_echo, exec_vars>>

\* cmd.args(as)
Args(as) ==
    /\ pc = "cmd"
    /\ CanCall
    /\ cmd' = CmdArgs(cmd, as)
    /\ Logged("args", as)
    /\ UNCHANGED <<pc, connections, input, suppress_echo, exec_vars>>

\* cmd.env(key, val)
Env(key, val) ==
    /\ pc = "cmd"
    /\ CanCall
    /\ cmd' = CmdEnv(cmd, key, val)
    /\ Logged("env", <<key, val>>)
    /\ UNCHANGED <<pc, connections, input, suppress_echo, exec_vars>>

\* cmd.no_echo() / pipeline.no_echo()
NoEcho ==
    /\ pc \in {"cmd", "pipeline"}
    /\ CanCall
    /\ IF pc = "cmd"
       THEN /\ cmd' = CmdNoEcho(cmd)
            /\ UNCHANGED <<connections, input, suppress_echo>>
       ELSE /\ Becomes(PipelineNoEcho(Self))
            /\ UNCHANGED cmd
    /\ Logged("no_echo", pc)
    /\ UNCHANGED <<pc, exec_vars>>

\* cmd.pipe_out(next) / pipeline.pipe_out(next), and pipe, pipe_err,
\* pipe_out_err likewise.
Pipe(op, next) ==
    /\ pc \in {"cmd", "pipeline"}
    /\ CanCall
    /\ IF pc = "cmd"
       THEN Becomes(CmdPipe(cmd, next, ModeOf(op)))
       ELSE /\ N < MaxStages
            /\ Becomes(PipelinePipe(Self, next, ModeOf(op)))
    /\ cmd' = NoCmd
    /\ pc' = "pipeline"
    /\ Logged(op, next)
    /\ UNCHANGED exec_vars

\* cmd.input(bytes) / pipeline.input(bytes), and input_bytes,
\* input_bytes_owned likewise.
Input(op, bytes) ==
    /\ pc \in {"cmd", "pipeline"}
    /\ CanCall
    /\ Becomes(PipelineInput(IF pc = "cmd" THEN IntoPipeline(cmd) ELSE Self, bytes))
    /\ cmd' = NoCmd
    /\ pc' = "pipeline"
    /\ Logged(op, bytes)
    /\ UNCHANGED exec_vars

\* reader.pipe(cmd), of ReadExt, for a reader that yields `bytes`.
ReaderPipe(bytes) ==
    /\ pc = "cmd"
    /\ CanCall
    /\ Becomes(ReadExtPipe(bytes, cmd))
    /\ cmd' = NoCmd
    /\ pc' = "pipeline"
    /\ Logged("ReadExt::pipe", bytes)
    /\ UNCHANGED exec_vars

\* The chain ends with a strategy method; on a Cmd the method is
\* self.into_pipeline().<method>().
Execute(s, r) ==
    /\ pc \in {"cmd", "pipeline"}
    /\ IF pc = "cmd"
       THEN Becomes(IntoPipeline(cmd))
       ELSE UNCHANGED <<connections, input, suppress_echo>>
    /\ cmd' = NoCmd
    /\ strategy' = s
    /\ reader' = r
    /\ pc' = "spawn"
    /\ UNCHANGED <<calls, procs, children, first_exit, pipes, prev_reader, cmd_writers,
                   held, feeder, drainers, lock, sink, waited, handle, result, echoed,
                   no_echo_env, arg, quoted>>

\* The strategies a chain ends with: one of each kind (run, a draining
\* strategy, a reader-taking strategy, a spawn_io_* method).
ChainStrategies == {"run", "write_to", "run_with_io", "spawn_io_all"}

\* The readers a run_with_* strategy is given at the end of a chain.
ReadersFor(s) == IF s \in ReaderStrategies THEN {<<>>, <<InputData[MaxInput]>>} ELSE {<<>>}

\* A chain starts with Cmd::new(program) (the cmd! macro).
InitBuilder ==
    /\ \E p \in BuilderPrograms :
          /\ cmd = CmdNew(p)
          /\ calls = <<[op |-> "new", val |-> p]>>
    /\ pc = "cmd"
    /\ connections = <<>>
    /\ input = None
    /\ suppress_echo = FALSE
    /\ no_echo_env = FALSE
    /\ strategy = "none"
    /\ reader = <<>>
    /\ arg = <<>>
    /\ quoted = NotQuoted
    /\ NotStarted

\* Builder chains and the start of the execution they end with: the spawner
\* and the start of the feeder.
NextBuilder ==
    \/ \E a \in ArgValues : Arg(a)
    \/ \E as \in ArgLists : Args(as)
    \/ \E key \in EnvKeys, val \in EnvValues : Env(key, val)
    \/ NoEcho
    \/ \E op \in PipeOps, next \in NextCmds : Pipe(op, next)
    \/ \E op \in InputOps, bytes \in BuilderInputs : Input(op, bytes)
    \/ \E bytes \in BuilderInputs : ReaderPipe(bytes)
    \/ \E s \in ChainStrategies : \E r \in ReadersFor(s) : Execute(s, r)
    \/ SpawnSingle
    \/ SpawnStage
    \/ StartFeeder

SpecBuilder == InitBuilder /\ [][NextBuilder]_vars

\* -------------------------------------------------------- PipelineHandle
\* What the caller of a spawn_io_* method does with what it was given: it
\* drops or reads the streams, and it calls wait() or output_bytes() on the
\* handle, in any order (the tests use a thread per stream).

\* Error::no_stdout()
NoStdoutError ==
    [Pending EXCEPT !.kind = "Err", !.message = "No stdout available to read from"]

\* The spawn_io_* method has returned Ok and the handle was not consumed yet.
HandleReturned ==
    /\ strategy \in SpawnStrategies
    /\ pc = "done"
    /\ handle = "live"
    /\ result.kind = "Ok"

\* The caller owns what the spawn_io_* method returned.
AfterReturn ==
    /\ strategy \in SpawnStrategies
    /\ pc \in {"done", "wait", "read_stdout", "wait_all"}

\* The caller drops a stream it was given (stdin: end of input for the
\* first stage).
CallerDrop(h) ==
    /\ AfterReturn
    /\ held[h] = "caller"
    /\ held' = [held EXCEPT ![h] = "closed"]
    /\ UNCHANGED <<caller_vars, echoed, connections, input, reader, strategy, cmd_writers, pc,
                   procs, children, first_exit, pipes, prev_reader, feeder, drainers, lock,
                   sink, waited, handle, result>>

\* The caller reads from the stdout or stderr it was given.
CallerRead(h) ==
    /\ AfterReturn
    /\ h \in {"stdout", "stderr"}
    /\ held[h] = "caller"
    /\ pipes[StreamPipe(h)].buf # <<>>
    /\ pipes' = Pop(StreamPipe(h))
    /\ UNCHANGED <<caller_vars, echoed, connections, input, reader, strategy, cmd_writers, pc,
                   procs, children, first_exit, prev_reader, held, feeder, drainers, lock,
                   sink, waited, handle, result>>

\* handle.wait(): the loop is WaitChild, its Ok(()) is Finish.
HandleWait ==
    /\ HandleReturned
    /\ handle' = "waiting"
    /\ result' = Pending
    /\ pc' = "wait"
    /\ UNCHANGED <<caller_vars, echoed, connections, input, reader, strategy, cmd_writers, procs,
                   children, first_exit, pipes, prev_reader, held, feeder, drainers, lock,
                   sink, waited>>

\* handle.output_bytes() / handle.output(): with a last child whose stdout
\* is still in the Child the method goes on to read it; otherwise it returns
\* Error::no_stdout() at once and the handle is dropped with its children.
OutputBytes ==
    /\ HandleReturned
    /\ IF children # <<>> /\ held.stdout = "handle"
       THEN /\ handle' = "waiting"
            /\ result' = Pending
            /\ pc' = "read_stdout"
       ELSE /\ handle' = "dropped"
            /\ result' = NoStdoutError
            /\ pc' = "done"
    /\ UNCHANGED <<caller_vars, echoed, connections, input, reader, strategy, cmd_writers, procs,
                   children, first_exit, pipes, prev_reader, held, feeder, drainers, lock,
                   sink, waited>>

\* reader.read_to_end(&mut output) of output_bytes, a byte at a time.
OutputBytesRead ==
    /\ pc = "read_stdout"
    /\ pipes[PipeOut].buf # <<>>
    /\ sink' = Append(sink, Head(pipes[PipeOut].buf))
    /\ pipes' = Pop(PipeOut)
    /\ UNCHANGED <<caller_vars, echoed, connections, input, reader, strategy, cmd_writers, pc,
                   procs, children, first_exit, prev_reader, held, feeder, drainers, lock,
                   waited, handle, result>>

\* OutputBytesEof of a read that may stop before the end of input.
OutputBytesEof_Early ==
    /\ pc = "read_stdout"
    /\ pc' = "wait_all"
    /\ UNCHANGED <<caller_vars, echoed, connections, input, reader, strategy, cmd_writers, procs,
                   children, first_exit, pipes, prev_reader, held, feeder, drainers, lock,
                   sink, waited, handle, result>>

\* read_to_end returns at end of input; the wait loop follows.
OutputBytesEof ==
    /\ pc = "read_stdout"
    /\ AtEof(PipeOut)
    /\ pc' = "wait_all"
    /\ UNCHANGED <<caller_vars, echoed, connections, input, reader, strategy, cmd_writers, procs,
                   children, first_exit, pipes, prev_reader, held, feeder, drainers, lock,
                   sink, waited, handle, result>>

\* One iteration of the wait loop of output_bytes: child.wait() returns once
\* the child has exited; the status is not looked at.
OutputBytesWait ==
    /\ pc = "wait_all"
    /\ waited < Len(children)
    /\ procs[NextToWait].st = "exited"
    /\ procs' = [procs EXCEPT ![NextToWait].st = "reaped"]
    /\ waited' = waited + 1
    /\ UNCHANGED <<caller_vars, echoed, connections, input, reader, strategy, cmd_writers, pc,
                   children, first_exit, pipes, prev_reader, held, feeder, drainers, lock,
                   sink, handle, result>>

\* return Ok(output): the reader, and the stdout in it, is dropped.
OutputBytesReturn ==
    /\ pc = "wait_all"
    /\ waited = Len(children)
    /\ result' = Ok(sink)
    /\ held' = [held EXCEPT !.stdout = "closed"]
    /\ handle' = "dropped"
    /\ pc' = "done"
    /\ UNCHANGED <<caller_vars, echoed, connections, input, reader, strategy, cmd_writers, procs,
                   children, first_exit, pipes, prev_reader, feeder, drainers, lock, sink,
                   waited>>

\* Code of the crate (children is pub(crate)) puts the stdout it was given
\* back into the last Child before it uses the handle.
KeepStdoutInChild ==
    /\ HandleReturned
    /\ children # <<>>
    /\ held.stdout = "caller"
    /\ held' = [held EXCEPT !.stdout = "handle"]
    /\ UNCHANGED <<caller_vars, echoed, connections, input, reader, strategy, cmd_writers, pc,
                   procs, children, first_exit, pipes, prev_reader, feeder, drainers, lock,
                   sink, waited, handle, result>>

\* The pipelines of up to MaxRunStages stages spawned with a spawn_io_*
\* method, echo on.
InitHandle == InitRun /\ strategy \in SpawnStrategies

\* A spawn_io_* method, the children, and the caller using the streams and
\* the handle through the public interface.
NextHandle ==
    \/ SpawnEmpty
    \/ SpawnSingle
    \/ SpawnStage
    \/ ReturnSpawn
    \/ \E i \in 1..MaxStages : ChildRead(i)
    \/ \E i \in 1..MaxStages, s \in {"stdout", "stderr"} : ChildWrite(i, s)
    \/ \E i \in 1..MaxStages : \E c \in ExitCodes(i) : ChildExit(i, c)
    \/ \E h \in {"stdin", "stdout", "stderr"} : CallerDrop(h)
    \/ \E h \in {"stdout", "stderr"} : CallerRead(h)
    \/ HandleWait
    \/ WaitChild
    \/ Finish
    \/ OutputBytes

SpecHandle == InitHandle /\ [][NextHandle]_vars

\* The same with handles whose last child still has its stdout, as code of
\* the crate can build them.
NextOutputBytes ==
    \/ NextHandle
    \/ KeepStdoutInChild
    \/ OutputBytesRead
    \/ OutputBytesEof
    \/ OutputBytesWait
    \/ OutputBytesReturn

SpecOutputBytes == InitHandle /\ [][NextOutputBytes]_vars

\* ================================================================ claims
\* The edge pipes among the pipes made (edge k joins stage k to stage k+1).
EdgePipes == {p \in 1..(MaxStages - 1) : pipes[p].made}

\* The streams of the children attached to pipe p, as <<stage, stream>>.
Attached(p) ==
    {e \in (1..MaxStages) \X {"stdin", "stdout", "stderr"} : procs[e[1]][e[2]] = ToPipe(p)}

\* The streams of stage i that the mode of stage i+1 routes into edge i.
Routed(i) ==
    CASE Mode(i + 1) = "Stdout" -> {"stdout"}
      [] Mode(i + 1) = "Stderr" -> {"stderr"}
      [] Mode(i + 1) = "Both"   -> {"stdout", "stderr"}

\* C1: once a spawner (spawn_io_all or spawn_inherit_stdio) has spawned
\* the N >= 2 stages of a pipeline, it has made exactly the N-1 edge pipes,
\* and the pipe of each edge (i, i+1) is attached to stage i's stdout when
\* stage i+1's mode is Stdout, to stage i's stderr when it is Stderr, to both
\* when it is Both, to stage i+1's stdin, and to nothing else.
C1_OnePipePerEdge ==
    (N >= 2 /\ Len(children) = N) =>
        /\ EdgePipes = 1..(N - 1)
        /\ \A i \in 1..(N - 1) :
              Attached(i) = {<<i, s>> : s \in Routed(i)} \cup {<<i + 1, "stdin">>}

\* C1 witness: run() has spawned three stages, the second reading both
\* streams of the first and the third the stderr of the second.
C1_Witness ==
    /\ N = 3
    /\ strategy = "run"
    /\ pc = "spawned"
    /\ Mode(2) = "Both"
    /\ Mode(3) = "Stderr"
    /\ Attached(1) = {<<1, "stdout">>, <<1, "stderr">>, <<2, "stdin">>}
    /\ Attached(2) = {<<2, "stderr">>, <<3, "stdin">>}

\* s is a merge of the sequences a and b that keeps the order of each.
RECURSIVE IsInterleaving(_, _, _)
IsInterleaving(s, a, b) ==
    IF s = <<>> THEN a = <<>> /\ b = <<>>
    ELSE \/ a # <<>> /\ Head(a) = Head(s) /\ IsInterleaving(Tail(s), Tail(a), b)
         \/ b # <<>> /\ Head(b) = Head(s) /\ IsInterleaving(Tail(s), a, Tail(b))

\* The bytes that went into edge i so far: those stage i+1 has read, then
\* those still in the pipe.
Delivered(i) == procs[i + 1].rd \o pipes[i].buf

\* C2: on every edge (i, i+1), what stage i+1 has read from its stdin and
\* what is still in the pipe is exactly what stage i has written to the
\* routed streams: its stderr bytes and none of its stdout bytes under
\* Stderr, its stdout bytes and none of its stderr bytes under Stdout, a merge
\* of the two that keeps the order of each under Both; and a downstream stage
\* that has read to the end of its input has read all of it.
C2_EdgeDelivers ==
    \A i \in 1..(N - 1) :
        procs[i + 1].st # "unspawned" =>
            /\ CASE Mode(i + 1) = "Stdout" -> Delivered(i) = procs[i].wo
                 [] Mode(i + 1) = "Stderr" -> Delivered(i) = procs[i].we
                 [] Mode(i + 1) = "Both" ->
                        IsInterleaving(Delivered(i), procs[i].wo, procs[i].we)
            /\ (Program(i + 1) = "cat" /\ procs[i + 1].st # "running"
                    /\ procs[i + 1].status # NoCode) =>
                  /\ pipes[i].buf = <<>>
                  /\ Len(procs[i + 1].rd) =
                        (IF "stdout" \in Routed(i) THEN Len(procs[i].wo) ELSE 0)
                        + (IF "stderr" \in Routed(i) THEN Len(procs[i].we) ELSE 0)

\* C2 witness: under Both a pass-through stage has read to the end every
\* byte of both streams of a stage that wrote to both.
C2_Witness ==
    /\ N = 2
    /\ Mode(2) = "Both"
    /\ Program(2) = "cat"
    /\ procs[2].st = "exited"
    /\ procs[1].wo = EmitOut
    /\ procs[1].we = EmitErr
    /\ Len(procs[2].rd) = Len(EmitOut) + Len(EmitErr)

\* Every stage was spawned, has exited with status zero and was waited on.
AllExitedZero ==
    /\ Len(children) = N
    /\ \A i \in Stages : procs[i].st = "reaped" /\ procs[i].status = 0

\* C3: run() returns Ok if and only if every stage was spawned and every
\* stage exited with status zero; a stage that exits with another status,
\* the last or not, makes it return an error.
C3_RunOkIffAllZero ==
    (strategy = "run" /\ pc = "done") =>
        /\ result.kind = "Ok" <=> AllExitedZero
        /\ (\E i \in Stages : procs[i].st = "reaped" /\ procs[i].status # 0) =>
              result.kind = "Err"

\* C3 witness: run() of two stages returned an error because the first
\* stage, whose output is piped onward, exited non-zero.
C3_Witness ==
    /\ strategy = "run"
    /\ pc = "done"
    /\ N = 2
    /\ procs[1].st = "reaped"
    /\ procs[1].status = 1
    /\ procs[2].st = "exited"
    /\ procs[2].status = 0
    /\ result = ExitCodeError(1)

\* C4: output() / output_bytes() returns Ok with the bytes the last stage
\* wrote to its stdout whatever the exit statuses, failing only when a stage
\* could not be spawned.
C4_OutputIgnoresExitStatus ==
    (strategy = "output" /\ pc = "done" /\ N >= 1 /\ Len(children) = N) =>
        /\ result.kind = "Ok"
        /\ result.bytes = procs[N].wo

Reaped == {i \in 1..MaxStages : procs[i].st = "reaped"}

\* C6: wait() waits on the children in stage order (the stages waited on
\* are always the first `waited` stages); the error it returns carries the
\* exit status of the lowest-numbered stage that failed, every stage before
\* it having exited zero, whichever stage exited first; and it returns Ok
\* when every stage exited zero.
C6_WaitInStageOrder ==
    /\ Reaped = 1..waited
    /\ (pc = "done" /\ result.message = "Command failed with exit code") =>
          /\ waited >= 1
          /\ procs[waited].status # 0
          /\ result.code = procs[waited].status
          /\ \A j \in 1..(waited - 1) : procs[j].status = 0
    /\ (pc = "done" /\ strategy \notin SpawnStrategies /\ Len(children) = N
            /\ \A i \in Stages : procs[i].st # "running" /\ procs[i].status = 0) =>
          result.kind = "Ok"

\* C6 witness: the second stage exited first, non-zero; the first stage
\* exited after it, non-zero too; the error carries the first stage's code.
C6_Witness ==
    /\ N = 2
    /\ pc = "done"
    /\ first_exit = 2
    /\ procs[2].status = 2
    /\ procs[1].status = 1
    /\ result = ExitCodeError(1)

\* The stages whose program cannot be started.
Unspawnable == {i \in Stages : Program(i) = "nope"}

\* The stage the spawner fails at: the first that cannot be started.
FirstUnspawnable == CHOOSE k \in Unspawnable : \A j \in Unspawnable : k <= j

\* C7: when some stage of a pipeline cannot be started, the call of any
\* strategy returns an error whose message is "Failed to spawn command" with
\* the program name of the stage that failed to start, wrapping the OS error,
\* however many stages are declared after it; it never returns Ok.
C7_SpawnFailureNamesProgram ==
    (Unspawnable # {} /\ pc = "done") =>
        /\ result.kind = "Err"
        /\ result.message = "Failed to spawn command"
        /\ result.stage = FirstUnspawnable
        /\ result.program = Program(FirstUnspawnable)
        /\ result.source

\* C7 witness: write_both_to() of three stages whose second cannot be
\* started returned the spawn error of the second stage.
C7_Witness ==
    /\ N = 3
    /\ strategy = "write_both_to"
    /\ Unspawnable = {2}
    /\ pc = "done"
    /\ result.kind = "Err"
    /\ result.stage = 2

\* C8: when the spawn of stage k has failed, the spawner has returned: no
\* stage after k was spawned, no pipe of an edge after k and no pipe for the
\* last stage's output was made, the stages before k are running as they
\* were, not killed and not waited on, and the caller holds neither the
\* PipelineHandle nor a stream of the pipeline.  (The pipe of the edge from
\* stage k itself is made before the spawn is tried; both its ends are closed
\* on return.)
C8_SpawnFailureLeavesChildren ==
    (pc = "done" /\ result.message = "Failed to spawn command") =>
        LET k == result.stage
        IN  /\ procs[k].st = "unspawned"
            /\ \A j \in (k + 1)..MaxStages : procs[j].st = "unspawned"
            /\ \A p \in PipeIds : p > k => ~pipes[p].made
            /\ \A j \in 1..(k - 1) : procs[j].st = "running"
            /\ children = [j \in 1..(k - 1) |-> j]
            /\ waited = 0
            /\ handle \in {"none", "dropped"}
            /\ \A h \in {"stdin", "stdout", "stderr"} : held[h] \in {"none", "closed"}
            /\ prev_reader = 0
            /\ ~HasWriter(k) /\ ~HasReader(k)

\* C8 witness: spawn_io_all of three stages failed at the second; the
\* first is running and the third was never spawned.
C8_Witness ==
    /\ N = 3
    /\ strategy = "spawn_io_all"
    /\ pc = "done"
    /\ result.stage = 2
    /\ procs[1].st = "running"
    /\ procs[3].st = "unspawned"
    /\ handle = "dropped"

\* The calling thread is past the spawner, or a worker thread, a drained
\* byte or a waited child exists.
PastSpawner ==
    \/ pc \in {"spawned", "drain", "join", "wait"}
    \/ feeder.st # "none"
    \/ \E s \in {"stdout", "stderr"} : drainers[s] # "none"
    \/ pipes[PipeIn].buf # <<>>
    \/ sink # <<>>
    \/ waited > 0
    \/ result.kind = "Ok"

\* C9: the stages are spawned in declaration order, each once (the
\* children of the handle are stages 1, 2, ... in that order and are exactly
\* the stages that have a process), and every stage has been spawned before
\* an input byte is fed, an output byte is drained or a child is waited on.
C9_SpawnOrder ==
    /\ children = [j \in 1..Len(children) |-> j]
    /\ Len(children) <= N
    /\ \A i \in 1..MaxStages : procs[i].st # "unspawned" <=> i <= Len(children)
    /\ PastSpawner => Len(children) = N

\* C9 witness: the second stage has consumed a byte of its input while the
\* first stage, which wrote it, is still running.
C9_Witness ==
    /\ N = 2
    /\ children = <<1, 2>>
    /\ procs[2].rd # <<>>
    /\ procs[1].st = "running"
    /\ procs[1].wo # <<>>

\* Every stage is the pass-through program, reads the stdout of the stage
\* before it, and exits with status zero.
PassThrough ==
    /\ N >= 1
    /\ \A i \in Stages : Program(i) = "cat" /\ Mode(i) \in {"Stdout", "Both"}
    /\ \A i \in Stages : procs[i].status = 0

\* C10: with a byte sequence B as the bulk input of a pipeline of
\* pass-through stages, output_bytes() returns exactly B and write_to() has
\* written exactly B to the writer, whatever the bytes and also when B is
\* longer than a pipe holds.
C10_RoundTrip ==
    (PassThrough /\ input # None /\ strategy \in {"output", "write_to"} /\ pc = "done") =>
        /\ result.kind = "Ok"
        /\ sink = input
        /\ strategy = "output" => result.bytes = input

\* C10 witness: output_bytes() of two pass-through stages returned an
\* input that is longer than a pipe holds and has a NUL and a high byte.
C10_Witness ==
    /\ N = 2
    /\ PassThrough
    /\ strategy = "output"
    /\ pc = "done"
    /\ Len(input) > PipeCap
    /\ input[1] = 0
    /\ input[2] >= 128
    /\ result = Ok(input)

\* Every stage reads its stdin to the end of input.
AllConsume == \A i \in Stages : Program(i) = "cat"

\* The feeder cannot write (the first stage's stdin pipe is full) and the
\* last stage cannot write its stdout (that pipe is full too).
BothEndsFull ==
    /\ feeder.st = "running"
    /\ feeder.rest # <<>>
    /\ Len(pipes[PipeIn].buf) = PipeCap
    /\ N >= 1
    /\ procs[N].st = "running"
    /\ procs[N].pend_out # <<>>
    /\ Len(pipes[PipeOut].buf) = PipeCap

\* The state C11 rules out: both ends are full and the calling thread is not
\* the one that reads stdout next.
FeedDrainDeadlock ==
    /\ BothEndsFull
    /\ ~(pc = "drain" /\ held.stdout = "spawn")

\* C11: in output() with bulk input a worker thread owns the first
\* stage's stdin while the calling thread reads stdout, so the state in which
\* the input cannot be written and the output cannot be written is never one
\* in which the calling thread is not reading; and when every stage reads its
\* input to the end the call returns, whatever the input's length.
C11_OutputFeedsAndDrains ==
    /\ []((strategy = "output" /\ input # None) =>
            /\ ~FeedDrainDeadlock
            /\ (pc \in {"drain", "join", "wait"} /\ N >= 1) =>
                  held.stdin \in {"feeder", "closed"})
    /\ (strategy = "output" /\ input # None /\ AllConsume) ~> (pc = "done")

\* C11 witness: output() on one pass-through stage with an input longer
\* than the pipes hold: the feeder and the stage are both blocked on a full
\* pipe and the calling thread is reading.
C11_Witness ==
    /\ strategy = "output"
    /\ N = 1
    /\ AllConsume
    /\ BothEndsFull
    /\ pc = "drain"

\* What the last stage still has to write to stream s.
PendingOn(s) == IF s = "stdout" THEN procs[N].pend_out ELSE procs[N].pend_err

\* The last stage is blocked writing stream s into a full pipe whose read
\* end the call holds in its PipelineSpawn.
LastStageStalledOn(s) ==
    /\ N >= 1
    /\ procs[N].st = "running"
    /\ procs[N][s] = ToPipe(StreamPipe(s))
    /\ PendingOn(s) # <<>>
    /\ Len(pipes[StreamPipe(s)].buf) = PipeCap
    /\ held[s] = "spawn"

\* The calling thread is blocked reading the stream it drains: nothing is in
\* the pipe and the last stage has nothing left to write to it.
CallerBlockedDraining ==
    /\ pc = "drain"
    /\ DrainStream(strategy) \in {"stdout", "stderr"}
    /\ held[DrainStream(strategy)] = "spawn"
    /\ pipes[DrainPipe(strategy)].buf = <<>>
    /\ PendingOn(DrainStream(strategy)) = <<>>

\* C12: output(), write_to(), write_err_to() and run_with_io() never
\* hang on the last-stage stream they do not drain: the calling thread is
\* never blocked reading the stream it drains while the last stage is blocked
\* writing more than a pipe holds to the other stream (stderr; stdout for
\* write_err_to), which the call keeps without reading it.
C12_NoHangOnUndrainedStream ==
    \A s \in {"stdout", "stderr"} :
        (strategy \in {"output", "write_to", "write_err_to", "run_with_io"}
            /\ DrainStream(strategy) # s) =>
                ~(LastStageStalledOn(s) /\ CallerBlockedDraining)

\* C13: once the spawner has returned the parent holds no write end of an
\* edge pipe, so the stdin of stage i+1 is at end of input exactly when the
\* pipe is empty and the child of stage i, the only holder of the write end
\* and of its duplicate under Both, has exited.
C13_NoParentWriteEnd ==
    pc # "spawn" =>
        /\ cmd_writers = {}
        /\ \A i \in 1..(N - 1) :
              procs[i + 1].st # "unspawned" =>
                 (AtEof(i) <=> (pipes[i].buf = <<>> /\ procs[i].st # "running"))

\* C13 witness: under Both, the second stage has read what the first wrote
\* to its two streams and is at end of input now that the first has exited.
C13_Witness ==
    /\ N = 2
    /\ Mode(2) = "Both"
    /\ pc # "spawn"
    /\ procs[1].st = "exited"
    /\ procs[1].wo # <<>>
    /\ procs[1].we # <<>>
    /\ procs[2].st = "running"
    /\ AtEof(1)

\* The output streams of the last stage a strategy retains: those it drains
\* or hands to its caller.
Retained(s) ==
    CASE s = "run"                                  -> {}
      [] s \in {"output", "write_to", "run_with_io"} -> {"stdout"}
      [] s \in {"write_err_to", "run_with_err_io"}   -> {"stderr"}
      [] s \in BothStrategies                        -> {"stdout", "stderr"}
      [] OTHER                                       -> Returned(s) \ {"stdin"}

\* C14: in a one-stage pipeline, under every strategy, the child's stdout
\* (stderr) is a pipe if and only if the strategy retains that stream, and is
\* inherited from the parent otherwise.
C14_SinglePipedIffRetained ==
    (N = 1 /\ procs[1].st # "unspawned") =>
        \A s \in {"stdout", "stderr"} :
            /\ procs[1][s].kind = "pipe" <=> s \in Retained(strategy)
            /\ procs[1][s].kind = "inherit" <=> s \notin Retained(strategy)

\* C15: in a one-stage pipeline every spawn path makes the child's stdin a
\* pipe, whichever streams the caller asked to retain.
C15_SingleStdinPiped ==
    (N = 1 /\ procs[1].st # "unspawned") => procs[1].stdin = ToPipe(PipeIn)

\* The spawn variants that do not hand the stdin handle to their caller.
NoStdinVariants == {"spawn_io_out", "spawn_io_err", "spawn_io_out_err"}

\* C15 as amended: in a one-stage pipeline the child's stdin is a pipe,
\* whose write end the spawner retains, under every strategy except
\* spawn_io_out, spawn_io_err and spawn_io_out_err; under these three the
\* child's stdin is inherited from the parent and no stdin pipe is made.
C15_SingleStdinPipedUnlessOutputOnly ==
    (N = 1 /\ procs[1].st # "unspawned") =>
        IF strategy \in NoStdinVariants
        THEN /\ procs[1].stdin = Inherit
             /\ ~pipes[PipeIn].made
             /\ held.stdin = "none"
        ELSE /\ procs[1].stdin = ToPipe(PipeIn)
             /\ pipes[PipeIn].made
             /\ held.stdin # "none"

\* C15 witness: spawn_io_out has returned the handle of one child whose
\* stdin is inherited.
C15_Witness ==
    /\ N = 1
    /\ strategy = "spawn_io_out"
    /\ pc = "done"
    /\ result.kind = "Ok"
    /\ procs[1].stdin = Inherit
    /\ procs[1].stdout = ToPipe(PipeOut)
    /\ held.stdout = "caller"

\* C16: a pipeline with no stage is a no-op under every strategy: no
\* process, no pipe, no worker thread, no stream handle and nothing written;
\* the spawn_io_* variants return a handle with no child, the other
\* strategies return Ok, output_bytes() with no byte, with or without bulk
\* input.
C16_EmptyPipelineNoOp ==
    N = 0 =>
        /\ children = <<>>
        /\ \A i \in 1..MaxStages : procs[i].st = "unspawned"
        /\ \A p \in PipeIds : ~pipes[p].made
        /\ \A h \in {"stdin", "stdout", "stderr"} : held[h] = "none"
        /\ feeder.st = "none"
        /\ \A h \in {"stdout", "stderr"} : drainers[h] = "none"
        /\ sink = <<>>
        /\ result.kind \in {"pending", "Ok"}
        /\ pc = "done" =>
              /\ result = Ok(<<>>)
              /\ strategy \in SpawnStrategies => handle = "live"

\* C16 witness: output_bytes() of a pipeline with no stage and with bulk
\* input set has returned no byte.
C16_Witness ==
    /\ N = 0
    /\ strategy = "output"
    /\ input = InputData
    /\ pc = "done"
    /\ waited = 0
    /\ result = Ok(<<>>)

\* C17: in write_to, before any child is waited on the sink holds every
\* byte the last stage wrote to its stdout and the last stage has closed it;
\* so when write_to returns the exit-code error of a stage the sink holds the
\* complete output.
C17_WriteToSinkCompleteBeforeWait ==
    (strategy = "write_to" /\ N >= 1) =>
        /\ (waited > 0 \/ handle = "waiting") => pc \in {"wait", "done"}
        /\ (Len(children) = N /\ pc \in {"join", "wait", "done"}) =>
              /\ sink = procs[N].wo
              /\ procs[N].st # "running"
              /\ procs[N].pend_out = <<>>
              /\ pipes[PipeOut].buf = <<>>
        /\ pc \in {"spawn", "spawned", "drain", "join"} => Reaped = {}

\* C17 witness: write_to returned the exit-code error of the last stage
\* and the sink holds all the bytes that stage wrote.
C17_Witness ==
    /\ strategy = "write_to"
    /\ N = 2
    /\ pc = "done"
    /\ result = ExitCodeError(2)
    /\ Len(procs[2].wo) > PipeCap
    /\ sink = procs[2].wo

\* The drain worker of stream s holds the lock of the sink with nothing to
\* write, while the worker of stream t waits for the lock with bytes to drain.
HolderBlocksOther(s, t) ==
    /\ lock = s
    /\ drainers[s] = "copying"
    /\ pipes[StreamPipe(s)].buf = <<>>
    /\ drainers[t] = "waiting"
    /\ pipes[StreamPipe(t)].buf # <<>>

\* The hang of the merging strategies: the holder of the lock waits for the
\* end of its stream, the last stage cannot reach it because it is blocked
\* writing the other stream into a full pipe, and the worker of that stream
\* waits for the lock.
BothDrainDeadlock(s, t) ==
    /\ HolderBlocksOther(s, t)
    /\ N >= 1
    /\ procs[N].st = "running"
    /\ PendingOn(s) = <<>>
    /\ PendingOn(t) # <<>>
    /\ Len(pipes[StreamPipe(t)].buf) = PipeCap

\* C18: in write_both_to and run_with_both_io the two drain workers hold
\* the lock of the shared sink only around single writes: they never copy at
\* the same time, neither keeps the other from draining its stream, and the
\* call is not hung when the last stage writes more than a pipe holds to
\* stderr before it closes stdout.
C18_LockAroundEachWrite ==
    strategy \in BothStrategies =>
        /\ ~(drainers.stdout = "copying" /\ drainers.stderr = "copying")
        /\ \A s, t \in {"stdout", "stderr"} :
              s # t => ~BothDrainDeadlock(s, t)

\* The bytes written to the first stage's stdin so far: those the stage has
\* read, then those still in the pipe.
FedSoFar == procs[1].rd \o pipes[PipeIn].buf

\* C19: with bulk input set, in run, output, write_to, write_err_to and
\* write_both_to the first stage's stdin handle goes to a worker thread as
\* soon as the spawner has returned and never back to the calling thread; the
\* worker writes the input bytes in order and closes the handle after the
\* last one, so a first stage that reads to the end of its input has read
\* exactly the input.
C19_FeederWritesThenCloses ==
    (strategy \in BulkStrategies /\ input # None /\ N >= 1 /\ Len(children) = N
        /\ pc \notin {"spawn", "spawned"}) =>
        /\ feeder.st \in {"running", "done"}
        /\ held.stdin = (IF feeder.st = "running" THEN "feeder" ELSE "closed")
        /\ FedSoFar \o feeder.rest = input
        /\ (Program(1) = "cat" /\ procs[1].st # "running" /\ procs[1].status # NoCode) =>
              /\ procs[1].rd = input
              /\ feeder.st = "done"
              /\ feeder.rest = <<>>

\* C19 witness: run() with an input longer than a pipe holds: the first
\* stage has read all of it, seen the end of input and exited.
C19_Witness ==
    /\ strategy = "run"
    /\ N = 1
    /\ Len(input) > PipeCap
    /\ feeder.st = "done"
    /\ held.stdin = "closed"
    /\ procs[1].st = "exited"
    /\ procs[1].rd = input

\* C20: in run_with_io, run_with_err_io and run_with_both_io the bulk
\* input, when the pipeline has one, is what is written to the first stage's
\* stdin; the caller's reader is copied only when no bulk input is set.
C20_ReaderStrategiesPreferBulkInput ==
    (strategy \in ReaderStrategies /\ N >= 1 /\ feeder.st # "none") =>
        FedSoFar \o feeder.rest = (IF input # None THEN input ELSE reader)

\* The feeder thread ended on a write error: it is done with input left over.
FeederFailed == feeder.st = "done" /\ feeder.rest # <<>>

\* C21: a write error in the input feeder thread never makes a strategy
\* return an error: when the feeder has failed and the strategy has returned,
\* the result is Ok exactly when every child was waited on with status zero,
\* and the only error it can be is the exit-code error of the last child
\* waited on.
C21_FeederErrorNotReturned ==
    (FeederFailed /\ pc = "done") =>
        /\ result.kind \in {"Ok", "Err"}
        /\ result.kind = "Ok" <=> AllExitedZero
        /\ result.kind = "Err" =>
              /\ waited >= 1
              /\ result = ExitCodeError(procs[children[waited]].status)

\* The one stage ignores its stdin and exits zero with input still unwritten:
\* the feeder's write failed, and run() returned Ok all the same.
C21_Witness ==
    /\ strategy = "run"
    /\ N = 1
    /\ Program(1) = "emit"
    /\ FeederFailed
    /\ pc = "done"
    /\ result.kind = "Ok"

\* A drain of a retained output stream ended on an I/O error.
DrainFailed == \E s \in {"stdout", "stderr"} : held[s] = "failed"

\* C22: in every strategy that drains a retained output stream, an I/O error
\* while reading the stream or writing the sink makes the call return an I/O
\* error: once a drain has failed, the call does not return anything else.
C22_DrainErrorReturned ==
    (DrainFailed /\ pc = "done") =>
        /\ result.kind = "Err"
        /\ result.source
        /\ result.message \in {"Failed to read stdout",
                               "Failed to copy pipeline output to writer"}

\* Everything the child of stage i has produced so far: what "emit" wrote,
\* what "cat" read.
Produced(i, stream) ==
    IF Program(i) = "emit"
    THEN (IF stream = "stdout" THEN EmitOut ELSE EmitErr)
    ELSE (IF stream = "stdout" THEN procs[i].rd ELSE <<>>)

\* C30: under run(), for one stage and for several, the last stage's stdout
\* and stderr are inherited from the parent and never piped, the parent makes
\* no pipe for them and keeps no output handle, the only stdin the parent
\* pipes is the first stage's, and what the last stage has written has
\* reached the parent's stdout and stderr whole and in the order written.
C30_RunInheritsLastOutput ==
    strategy = "run" =>
        /\ ~pipes[PipeOut].made /\ ~pipes[PipeErr].made
        /\ held.stdout = "none" /\ held.stderr = "none"
        /\ \A i \in Stages : procs[i].st # "unspawned" =>
              /\ i = N => procs[i].stdout = Inherit /\ procs[i].stderr = Inherit
              /\ procs[i].stdin = ToPipe(PipeIn) <=> i = 1
              /\ procs[i].stdin # Inherit
        /\ pipes[PipeIn].made <=> (N >= 1 /\ procs[1].st # "unspawned")
        /\ (N >= 1 /\ procs[N].st \in {"exited", "reaped"} /\ procs[N].status # NoCode) =>
              /\ procs[N].wo = Produced(N, "stdout")
              /\ procs[N].we = Produced(N, "stderr")

\* run() of a two-stage pipeline has returned; the last stage wrote both of
\* its streams to the inherited stdout and stderr.
C30_Witness ==
    /\ strategy = "run"
    /\ N = 2
    /\ pc = "done"
    /\ procs[2].stdout = Inherit
    /\ procs[2].stderr = Inherit
    /\ procs[2].wo = EmitOut
    /\ procs[2].we = EmitErr
    /\ result.kind = "Ok"

\* ------------------------------------------------ claims on the builder
\* The value of the last input / input_bytes / input_bytes_owned /
\* ReadExt::pipe call in a log, None when there is none.
RECURSIVE LastInputIn(_)
LastInputIn(cs) ==
    IF cs = <<>> THEN None
    ELSE IF cs[Len(cs)].op \in InputOps \cup {"ReadExt::pipe"} THEN cs[Len(cs)].val
    ELSE LastInputIn(SubSeq(cs, 1, Len(cs) - 1))

\* The strategy has spawned every stage and started its feeder.
FeedStarted == pc = "drain" /\ Len(children) = N

\* C23: after any sequence of input calls and stage appends the pipeline's
\* bulk input is the value of the last input call, and when the pipeline is
\* executed that value, and nothing else, is what is fed to the first stage.
C23_LastInputIsFed ==
    /\ pc \in {"pipeline", "spawn", "spawned", "drain"} => input = LastInputIn(calls)
    /\ (FeedStarted /\ LastInputIn(calls) # None) =>
          /\ feeder.st = "running"
          /\ feeder.rest = LastInputIn(calls)

\* The mode each pipe method is to store.
ExpectedMode(op) ==
    CASE op \in {"pipe_out", "pipe"} -> "Stdout"
      [] op = "pipe_err"             -> "Stderr"
      [] op = "pipe_out_err"         -> "Both"

\* The <<program, mode>> pairs a log calls for: the Cmd constructed, with mode
\* Stdout, then one pair per pipe call, in call order.
RECURSIVE StagesCalled(_)
StagesCalled(cs) ==
    IF cs = <<>> THEN <<>>
    ELSE LET c == cs[Len(cs)]
             front == StagesCalled(SubSeq(cs, 1, Len(cs) - 1))
         IN  IF c.op = "new" THEN front \o <<<<c.val, "Stdout">>>>
             ELSE IF c.op \in PipeOps
                  THEN front \o <<<<c.val.program, ExpectedMode(c.op)>>>>
                  ELSE front

\* C24: pipe_out and pipe append exactly one stage with mode Stdout, pipe_err
\* one with mode Stderr, pipe_out_err one with mode Both, and leave the
\* stages there are, their order, their modes and the bulk input as they were:
\* the stages of a pipeline are those of its builder calls, in call order,
\* and its bulk input is that of the last input call.
C24_PipeAppendsOneStage ==
    pc = "pipeline" =>
        /\ N = Len(StagesCalled(calls))
        /\ \A i \in Stages :
              <<connections[i].program, connections[i].mode>> = StagesCalled(calls)[i]
        /\ input = LastInputIn(calls)

\* A chain of the three pipe methods after an input call: three stages, modes
\* Stdout, Stderr, Both, and the input still set.
C24_Witness ==
    /\ pc = "pipeline"
    /\ N = 3
    /\ connections[1].program = "emit"
    /\ connections[2].mode = "Stderr"
    /\ connections[3].mode = "Both"
    /\ connections[2].program # connections[3].program
    /\ input # None

\* no_echo() was called on a stage's command or on the pipeline.
NoEchoCalled ==
    \E k \in 1..Len(calls) :
        \/ calls[k].op = "no_echo"
        \/ calls[k].op \in PipeOps /\ calls[k].val.suppress_echo

\* C25: a Pipeline's suppress_echo flag is true if and only if no_echo() was
\* called on at least one of its stage commands, at any position, or on the
\* Pipeline itself.
C25_SuppressEchoIffNoEchoCalled ==
    pc = "pipeline" => (suppress_echo <=> NoEchoCalled)

\* The arguments a log supplies, in call order.
RECURSIVE ArgsCalled(_)
ArgsCalled(cs) ==
    IF cs = <<>> THEN <<>>
    ELSE LET c == cs[Len(cs)]
             front == ArgsCalled(SubSeq(cs, 1, Len(cs) - 1))
         IN  IF c.op = "arg" THEN Append(front, c.val)
             ELSE IF c.op = "args" THEN front \o c.val
             ELSE front

\* C26: for any sequence of arg and args calls on a Cmd the args vector is
\* the concatenation of the supplied values in call order, nothing reordered
\* and nothing dropped, and that vector is the argv tail the stage is
\* spawned with.
C26_ArgsInCallOrder ==
    /\ pc = "cmd" => cmd.args = ArgsCalled(calls)
    /\ N >= 1 => connections[1].args = ArgsCalled(calls)
    /\ \A i \in Stages : procs[i].st # "unspawned" => procs[i].argv = connections[i].args

\* The first stage was spawned with the arguments of args(["b", "a"]) and
\* arg("a"): a repeated value, in call order.
C26_Witness ==
    /\ N >= 1
    /\ procs[1].st = "running"
    /\ procs[1].argv = <<"b", "a", "a">>
    /\ \E k \in 1..Len(calls) : calls[k].op = "args"
    /\ \E k \in 1..Len(calls) : calls[k].op = "arg"

\* The env calls of a log, in call order.
RECURSIVE EnvsCalled(_)
EnvsCalled(cs) ==
    IF cs = <<>> THEN <<>>
    ELSE LET c == cs[Len(cs)]
             front == EnvsCalled(SubSeq(cs, 1, Len(cs) - 1))
         IN  IF c.op = "env" THEN Append(front, c.val) ELSE front

\* The value the child is to see for key: that of the last env call for it,
\* the parent's when there is none.
Override(key) ==
    LET es == EnvsCalled(calls)
        ks == {k \in 1..Len(es) : es[k][1] = key}
    IN  IF ks = {} THEN ParentEnv[key]
        ELSE es[CHOOSE k \in ks : \A j \in ks : j <= k][2]

\* C27: env calls are recorded in call order with duplicate keys kept; at
\* spawn they are applied in that order, so the child sees the value of the
\* last call for a key, and the inherited value for a key never set.
C27_EnvLastCallWins ==
    /\ pc = "cmd" => cmd.envs = EnvsCalled(calls)
    /\ N >= 1 => connections[1].envs = EnvsCalled(calls)
    /\ (N >= 1 /\ procs[1].st # "unspawned") =>
          \A key \in EnvKeys : procs[1].env[key] = Override(key)

\* HOME, set in the parent, was set twice on the command: both calls are
\* recorded and the child sees the second value; K is as in the parent.
C27_Witness ==
    /\ N >= 1
    /\ procs[1].st = "running"
    /\ connections[1].envs = <<<<"HOME", "x">>, <<"HOME", "y">>>>
    /\ procs[1].env["HOME"] = "y"
    /\ procs[1].env["K"] = NotSet

\* ------------------------------------------------ claims on quote_argument
\* The special characters the claim designates.
Designated == {"SP", "TAB", "ESC", "SQ", "DQ", "STAR"}

Plain(s) == s # <<>> /\ \A k \in 1..Len(s) : s[k] \notin Designated

ValidUnicode(s) == \A k \in 1..Len(s) : s[k] # "BAD"

WiredAsDeclared(i) ==
    IF N = 1
    THEN /\ procs[1].stdin = IF strategy \in NoStdinVariants THEN Inherit ELSE ToPipe(PipeIn)
         /\ \A s \in {"stdout", "stderr"} :
               procs[1][s].kind = "pipe" <=>
                   /\ strategy # "run"
                   /\ strategy \in PartialSpawnStrategies => s \in Returned(strategy)
    ELSE /\ procs[i].stdin = IF i = 1 THEN ToPipe(PipeIn) ELSE ToPipe(i - 1)
         /\ \A s \in {"stdout", "stderr"} :
               procs[i][s] =
                   IF i < N
                   THEN (IF s \in Routed(i) THEN ToPipe(i) ELSE Inherit)
                   ELSE IF strategy = "run" THEN Inherit
                   ELSE ToPipe(IF s = "stdout" THEN PipeOut ELSE PipeErr)

\* The result as the pipeline, the strategy, the exit statuses of the
\* children and the bytes drained alone determine it.
ResultAsDeclared ==
    IF Unspawnable # {}
    THEN /\ result.kind = "Err"
         /\ result.message = "Failed to spawn command"
         /\ result.stage = FirstUnspawnable
    ELSE IF strategy \in SpawnStrategies
    THEN result = Ok(<<>>)
    ELSE IF AllExitedZero
    THEN result = Ok(IF strategy = "output" THEN sink ELSE <<>>)
    ELSE /\ result.kind = "Err"
         /\ result.message = "Command failed with exit code"
         /\ waited >= 1
         /\ result.code = procs[waited].status
         /\ \A j \in 1..(waited - 1) : procs[j].status = 0

\* C28: echo has no effect on execution.  Whatever suppress_echo and NO_ECHO
\* are, the stages spawned are those before the first that cannot be started,
\* each wired as the pipeline and the strategy alone determine, and the
\* result is the one the pipeline, the strategy and the children alone
\* determine, so two runs that differ only in the two flags spawn the same
\* process graph and return the same result; and the transcript is printed
\* only when suppress_echo is false and NO_ECHO is not set (and then it is).
C28_EchoDoesNotAffectExecution ==
    /\ echoed >= 1 => (~suppress_echo /\ ~no_echo_env)
    /\ (pc # "spawn" /\ ~suppress_echo /\ ~no_echo_env) => echoed >= 1
    /\ \A i \in Stages : procs[i].st # "unspawned" =>
          /\ WiredAsDeclared(i)
          /\ \A j \in 1..i : Program(j) # "nope"
    /\ (pc # "spawn" /\ Unspawnable = {}) => Len(children) = N
    /\ pc = "done" => ResultAsDeclared

\* write_to() of two stages returned Ok with bytes in the sink and nothing
\* was printed: suppress_echo is false, NO_ECHO is set.
C28_Witness ==
    /\ strategy = "write_to"
    /\ N = 2
    /\ ~suppress_echo
    /\ no_echo_env
    /\ pc = "done"
    /\ result.kind = "Ok"
    /\ sink # <<>>
    /\ echoed = 0

\* s is what is left of t after some of its first elements.
IsSuffix(s, t) ==
    /\ Len(s) <= Len(t)
    /\ s = SubSeq(t, Len(t) - Len(s) + 1, Len(t))

WaitReturned ==
    /\ strategy \in SpawnStrategies
    /\ pc = "done"
    /\ handle = "dropped"
    /\ Len(children) = N
    /\ result = Ok(<<>>) \/ result.message = "Command failed with exit code"

\* C32: when PipelineHandle::wait has returned, with Ok or with an
\* exit-code error, every child of the handle has been waited on, the stages
\* after the first one found to have exited non-zero included.
C32_WaitReapsEveryChild ==
    WaitReturned => \A i \in Stages : procs[i].st = "reaped"

\* The strategies that feed, drain and wait by a fixed policy.
PolicyStrategies == (BulkStrategies \cup ReaderStrategies) \ {"run"}

\* The streams a strategy drains.
DrainedStreams(s) ==
    CASE DrainStream(s) = "both" -> {"stdout", "stderr"}
      [] DrainStream(s) = "none" -> {}
      [] OTHER                   -> {DrainStream(s)}

StreamPipeOf(s) == CASE s = "stdin" -> PipeIn [] s = "stdout" -> PipeOut [] OTHER -> PipeErr

\* The modes stored with the stages after the first.
LaterModes == [i \in 2..N |-> Mode(i)]

\* The streams of a stage that the mode `mode` of the next stage routes into
\* the edge between them.
RoutedBy(mode) ==
    CASE mode = "Stdout" -> {"stdout"}
      [] mode = "Stderr" -> {"stderr"}
      [] mode = "Both"   -> {"stdout", "stderr"}

\* Stage i is wired as `modes`, the modes of the stages after the first, the
\* number of stages and the strategy determine.
WiredFrom(modes, i) ==
    IF N = 1
    THEN \A s \in {"stdin", "stdout", "stderr"} :
            procs[1][s] = IF s \in SinglePiped(strategy) THEN ToPipe(StreamPipeOf(s)) ELSE Inherit
    ELSE /\ procs[i].stdin = IF i = 1 THEN ToPipe(PipeIn) ELSE ToPipe(i - 1)
         /\ \A s \in {"stdout", "stderr"} :
               procs[i][s] =
                   IF i < N
                   THEN (IF s \in RoutedBy(modes[i + 1]) THEN ToPipe(i) ELSE Inherit)
                   ELSE IF strategy = "run" THEN Inherit
                   ELSE ToPipe(StreamPipeOf(s))

\* C34: the mode stored with the first stage is never used: every
\* spawned stage is wired as the modes of the stages after the first alone
\* determine (with the number of stages and the strategy), whatever mode the
\* first stage is stored with, and the transcript line is the same for
\* every mode of the first stage.
C34_FirstModeUnused ==
    /\ \A i \in Stages : procs[i].st # "unspawned" => WiredFrom(LaterModes, i)
    /\ N >= 1 =>
          \A m \in PipeMode :
              EchoParts([connections EXCEPT ![1].mode = m], 1) = EchoParts(connections, 1)

\* C34 witness: a pipeline whose first stage is stored with Stderr and
\* whose second stage is stored with Stdout was spawned, the first stage's
\* stdout in the pipe and its stderr inherited.
C34_Witness ==
    /\ N = 2
    /\ pc = "spawned"
    /\ Mode(1) = "Stderr"
    /\ Mode(2) = "Stdout"
    /\ procs[1].stdout = ToPipe(1)
    /\ procs[1].stderr = Inherit
    /\ EchoParts(connections, 1) = <<Program(1), "|", Program(2)>>

\* C35: with no bulk input set, run(), output() and write_to() on a
\* pipeline whose first stage reads its stdin to the end (and whose stages
\* can all be spawned) eventually return.
C35_NoInputReturns ==
    (/\ strategy \in {"run", "output", "write_to"}
     /\ input = None
     /\ N >= 1
     /\ Program(1) = "cat"
     /\ Unspawnable = {})
        ~> (pc = "done")

\* C36: for two or more stages, every partial spawn_io_* variant (in,
\* out, err, in_out, in_err, out_err) that has returned Ok has piped the first
\* stage's stdin and the last stage's stdout and stderr, the caller owns
\* the handles the variant returns and the parent has closed the others, so
\* no output stream of the last stage is inherited; for one stage the output
\* streams the variant does not return are inherited.
C36_PartialSpawnPipesAll ==
    (strategy \in PartialSpawnStrategies /\ pc = "done" /\ result.kind = "Ok") =>
        /\ N >= 2 =>
              /\ procs[1].stdin = ToPipe(PipeIn)
              /\ procs[N].stdout = ToPipe(PipeOut)
              /\ procs[N].stderr = ToPipe(PipeErr)
              /\ \A h \in {"stdin", "stdout", "stderr"} :
                    held[h] = IF h \in Returned(strategy) THEN "caller" ELSE "closed"
        /\ N = 1 =>
              \A s \in {"stdout", "stderr"} \ Returned(strategy) : procs[1][s] = Inherit

\* C36 witness: spawn_io_in on two stages has returned: the last stage's
\* stdout and stderr are pipes whose read ends the parent has closed, the
\* caller has the first stage's stdin.
C36_Witness ==
    /\ strategy = "spawn_io_in"
    /\ N = 2
    /\ pc = "done"
    /\ result.kind = "Ok"
    /\ procs[2].stdout = ToPipe(PipeOut)
    /\ procs[2].stderr = ToPipe(PipeErr)
    /\ held = [stdin |-> "caller", stdout |-> "closed", stderr |-> "closed"]

\* What stage i has written to stream s, and what it has left to write.
Written(i, s) == IF s = "stdout" THEN procs[i].wo ELSE procs[i].we
LeftToWrite(i, s) == IF s = "stdout" THEN procs[i].pend_out ELSE procs[i].pend_err

\* The number of bytes stage i has written to the streams in `set`.
RECURSIVE WrittenTo(_, _)
WrittenTo(i, set) ==
    IF set = {} THEN 0
    ELSE LET s == CHOOSE x \in set : TRUE
         IN  Len(Written(i, s)) + WrittenTo(i, set \ {s})

\* The number of bytes in the pipes of the last stage's streams in `set`.
RECURSIVE Buffered(_)
Buffered(set) ==
    IF set = {} THEN 0
    ELSE LET s == CHOOSE x \in set : TRUE
         IN  Len(pipes[StreamPipe(s)].buf) + Buffered(set \ {s})

\* C37: for every stage but the last, under every strategy, the streams
\* named by the next stage's mode are attached to the pipe of the edge and
\* the other output stream is inherited from the parent, so that the stage
\* can always write to it; the bytes that entered the edge are as many as
\* the stage wrote to the routed streams, and the bytes drained and waiting
\* to be drained are as many as the last stage wrote to the drained streams:
\* no byte of the other stream is among them.
C37_UnroutedStreamInherited ==
    /\ \A i \in 1..(N - 1) :
          procs[i].st # "unspawned" =>
              /\ \A s \in {"stdout", "stderr"} :
                    IF s \in Routed(i)
                    THEN procs[i][s] = ToPipe(i)
                    ELSE /\ procs[i][s] = Inherit
                         /\ (procs[i].st = "running" /\ LeftToWrite(i, s) # <<>>) =>
                               ENABLED ChildWrite(i, s)
              /\ Len(procs[i + 1].rd) + Len(pipes[i].buf) = WrittenTo(i, Routed(i))
    /\ (N >= 1 /\ strategy \in PolicyStrategies) =>
          Len(sink) + Buffered(DrainedStreams(strategy))
              = WrittenTo(N, DrainedStreams(strategy))

\* C37 witness: output() of a stage that writes to both streams, piped by
\* its stderr into a pass-through stage, has returned the stderr bytes; the
\* stdout bytes went to the inherited stdout.
C37_Witness ==
    /\ strategy = "output"
    /\ N = 2
    /\ Program(1) = "emit"
    /\ Program(2) = "cat"
    /\ Mode(2) = "Stderr"
    /\ procs[1].stdout = Inherit
    /\ procs[1].wo = EmitOut
    /\ procs[2].rd = EmitErr
    /\ pc = "done"
    /\ result = Ok(EmitErr)

C39_EchoAtMostOnce == echoed <= 1

====
